---- MODULE Spec2Model ----
(***************************************************************************)
(* State-machine model of the room-session engine of room_loop:           *)
(*   - the store (src/server/storage.ts over the tables of                *)
(*     src/shared/schema.ts),                                              *)
(*   - the WebSocket handler, the periodic sweeper and the request        *)
(*     handlers of src/server/routes.ts,                                  *)
(*   - the page that receives the events (use-websocket.tsx,              *)
(*     room-page.tsx and room-chat.tsx of src/client/src).                *)
(*                                                                         *)
(* Granularity.  The server is one Node event loop.  Every handler is an  *)
(* async function; it is modelled as a task with a program counter that   *)
(* names the store call it is awaiting.  One action is one resumption of  *)
(* a task: the awaited store call takes effect on the tables, and the     *)
(* synchronous code that follows runs up to the next await (or to the     *)
(* end of the handler).  Tasks interleave only at awaits, as in Node.     *)
(***************************************************************************)
EXTENDS Integers, Sequences, FiniteSets, TLC

(***************************************************************************)
(* Bounds of the model (not program constants).                           *)
(***************************************************************************)
MaxTime == 3        \* the wall clock runs over 0..MaxTime
NumUsers == 3       \* users 1..NumUsers exist in the users table
NumConns == 2       \* WebSocket connections 1..NumConns
MaxFrames == 2      \* frames one connection sends before it closes
MaxReqs == 2        \* request handlers / sweeper ticks started in one run

Users == 1..NumUsers
Conns == 1..NumConns
Times == 0..MaxTime

VARIABLES
    now,              \* wall clock (new Date())
    rooms,            \* table rooms: id -> row
    participants,     \* table room_participants: set of <<roomId, userId>>
    invitations,      \* table room_invitations: set of rows
    messages,         \* table messages: set of rows
    reactions,        \* table reactions: set of rows
    serial,           \* the serial id columns: next id per table
    conns,            \* per connection: readyState, closure variable userData
    roomConnections,  \* the Map<number, Set<WebSocket>> of routes.ts
    outbox,           \* per connection: the events the server sent to it
    sweeps,           \* running updateRoomStatuses calls (sweeper, GET /api/rooms)
    gets,             \* running GET /api/rooms/:id handlers
    joins,            \* running POST /api/rooms/:id/join handlers
    posts,            \* running POST handlers other than join
    wsTasks,          \* running ws.on('message') handlers
    nreq,             \* handlers started so far (task ids)
    lastDone,         \* the handler that completed last, with its response
    client            \* per connection: the state of the browser page behind it

dbVars == <<rooms, participants, invitations, messages, reactions, serial>>
wsVars == <<conns, roomConnections, outbox>>
taskVars == <<sweeps, gets, joins, posts, wsTasks>>
vars == <<now, rooms, participants, invitations, messages, reactions, serial,
          conns, roomConnections, outbox, sweeps, gets, joins, posts, wsTasks,
          nreq, lastDone, client>>

(***************************************************************************)
(* Helpers on sequences and sets.                                          *)
(***************************************************************************)
Min(S) == CHOOSE x \in S : \A y \in S : x <= y

RECURSIVE SetToSeq(_)
SetToSeq(S) == IF S = {} THEN <<>> ELSE <<Min(S)>> \o SetToSeq(S \ {Min(S)})

RECURSIVE Repeat(_, _)
Repeat(s, k) == IF k = 0 THEN <<>> ELSE s \o Repeat(s, k - 1)

Range(s) == {s[i] : i \in DOMAIN s}

NoTask == [kind |-> "none"]

(***************************************************************************)
(* Events of the wire protocol, server -> client.  One record shape:      *)
(* id 0 stands for id: null, "" for an absent field.                      *)
(***************************************************************************)
Event(type, room, id, user, content, status) ==
    [type |-> type, room |-> room, id |-> id, user |-> user,
     content |-> content, status |-> status]

InitAck == Event("init", 0, 0, 0, "", "")
ErrorEvent == Event("error", 0, 0, 0, "", "")
StatusEvent(r, status) == Event("room_status_update", r, 0, 0, "", status)
MessageEvent(m) == Event("message", m.roomId, m.id, m.userId, m.content, "")
ReactionEvent(x) == Event("reaction", x.roomId, x.id, x.userId, x.type, "")

(***************************************************************************)
(* Connection registry.                                                    *)
(***************************************************************************)
IsOpen(c) == conns[c].state = "open"

Bucket(r) == IF r \in DOMAIN roomConnections THEN roomConnections[r] ELSE {}

\* for (const [wsRoomId, clients] of roomConnections.entries()) clients.forEach:
\* a connection is visited once per bucket that holds it.
Visits(c) == Cardinality({b \in DOMAIN roomConnections : c \in roomConnections[b]})

\* The fan-out used by the sweeper and by the lazy reconciliation: every open
\* connection of every bucket is sent the events evs, in order.
BroadcastAll(evs) ==
    [c \in Conns |->
        IF IsOpen(c) THEN outbox[c] \o Repeat(evs, Visits(c)) ELSE outbox[c]]

(***************************************************************************)
(* Room lifecycle.                                                         *)
(***************************************************************************)
\* storage.createRoom: the status a room is inserted with.
InitialStatus(startTime, endTime, t) ==
    IF startTime <= t /\ endTime > t THEN "live"
    ELSE IF endTime <= t THEN "closed"
    ELSE "scheduled"

\* storage.updateRoomStatuses, first select.
RoomsToGoLive(t) ==
    {r \in DOMAIN rooms :
        /\ rooms[r].status = "scheduled"
        /\ rooms[r].startTime <= t
        /\ rooms[r].endTime >= t}

\* Mutant of RoomsToClose: the end of the window compared with < instead of <=.
RoomsToCloseStrict(t) ==
    {r \in DOMAIN rooms : rooms[r].status = "live" /\ rooms[r].endTime < t}

\* storage.updateRoomStatuses, second select.
RoomsToClose(t) ==
    {r \in DOMAIN rooms : rooms[r].status = "live" /\ rooms[r].endTime <= t}

\* db.update(rooms).set({status}).where(inArray(rooms.id, ids)) and
\* storage.updateRoomStatus(id, status): no condition on the stored status.
SetStatus(ids, status) ==
    [r \in DOMAIN rooms |->
        IF r \in ids THEN [rooms[r] EXCEPT !.status = status] ELSE rooms[r]]

\* The wall clock advances.
Tick ==
    /\ now < MaxTime
    /\ now' = now + 1
    /\ UNCHANGED <<client, dbVars, wsVars, taskVars, nreq, lastDone>>

\* The events of the sweeper's broadcast, as one client receives them.
SweepEvents(goingLive, goingClosed) ==
    [i \in 1..Cardinality(goingLive) |-> StatusEvent(SetToSeq(goingLive)[i], "live")]
    \o [i \in 1..Cardinality(goingClosed) |-> StatusEvent(SetToSeq(goingClosed)[i], "closed")]

\* setInterval callback / GET /api/rooms: the handler starts and calls
\* storage.updateRoomStatuses, which reads the clock and issues its first select.
SweepStart(kind, u) ==
    /\ nreq < MaxReqs
    /\ nreq' = nreq + 1
    /\ sweeps' = sweeps \cup
         {[id |-> nreq + 1, kind |-> kind, user |-> u, pc |-> "selectLive",
           now |-> now, goingLive |-> {}, goingClosed |-> {}]}
    /\ UNCHANGED <<client, now, dbVars, wsVars, gets, joins, posts, wsTasks, lastDone>>

\* updateRoomStatuses returned: the sweeper broadcasts, GET /api/rooms goes on
\* to its reads (which change nothing) and answers 200.
SweepReturn(t, goingClosed) ==
    /\ sweeps' = sweeps \ {t}
    /\ lastDone' = [kind |-> t.kind, id |-> t.id, user |-> t.user, now |-> t.now,
                    goingLive |-> t.goingLive, goingClosed |-> goingClosed,
                    code |-> IF t.kind = "list" THEN 200 ELSE 0]
    /\ outbox' = IF t.kind = "sweeper" /\ (t.goingLive # {} \/ goingClosed # {})
                 THEN BroadcastAll(SweepEvents(t.goingLive, goingClosed))
                 ELSE outbox

\* The first select completes.
SweepSelectLive(t) ==
    /\ t.pc = "selectLive"
    /\ LET ids == RoomsToGoLive(t.now)
       IN sweeps' = (sweeps \ {t}) \cup
            {[t EXCEPT !.goingLive = ids,
                       !.pc = IF ids # {} THEN "updateLive" ELSE "selectClose"]}
    /\ UNCHANGED <<client, now, dbVars, wsVars, gets, joins, posts, wsTasks, nreq, lastDone>>

\* The update to live completes.
SweepUpdateLive(t) ==
    /\ t.pc = "updateLive"
    /\ rooms' = SetStatus(t.goingLive, "live")
    /\ sweeps' = (sweeps \ {t}) \cup {[t EXCEPT !.pc = "selectClose"]}
    /\ UNCHANGED <<client, now, participants, invitations, messages, reactions, serial,
                   wsVars, gets, joins, posts, wsTasks, nreq, lastDone>>

\* The second select completes; with no room to close the call returns.
SweepSelectClose(t) ==
    /\ t.pc = "selectClose"
    /\ LET ids == RoomsToClose(t.now)
       IN IF ids # {}
          THEN /\ sweeps' = (sweeps \ {t}) \cup
                    {[t EXCEPT !.goingClosed = ids, !.pc = "updateClose"]}
               /\ UNCHANGED <<outbox, lastDone>>
          ELSE SweepReturn(t, {})
    /\ UNCHANGED <<client, now, dbVars, conns, roomConnections, gets, joins, posts,
                   wsTasks, nreq>>

\* The update to closed completes and the call returns.
SweepUpdateClose(t) ==
    /\ t.pc = "updateClose"
    /\ rooms' = SetStatus(t.goingClosed, "closed")
    /\ SweepReturn(t, t.goingClosed)
    /\ UNCHANGED <<client, now, participants, invitations, messages, reactions, serial,
                   conns, roomConnections, gets, joins, posts, wsTasks, nreq>>

(***************************************************************************)
(* GET /api/rooms/:id, with its lazy reconciliation of the status.        *)
(***************************************************************************)
\* parseInt of a path that names no room: serial ids start at 1.
MissingRoom == 0

GetStart(u, r) ==
    /\ nreq < MaxReqs
    /\ nreq' = nreq + 1
    /\ gets' = gets \cup
         {[id |-> nreq + 1, user |-> u, room |-> r, pc |-> "getRoom",
           status |-> "", isParticipant |-> FALSE, now |-> 0, target |-> ""]}
    /\ UNCHANGED <<client, now, dbVars, wsVars, sweeps, joins, posts, wsTasks, lastDone>>

GetDone(t, code, status, isParticipant) ==
    /\ gets' = gets \ {t}
    /\ lastDone' =
         [kind |-> "get", id |-> t.id, user |-> t.user, room |-> t.room,
          code |-> code, status |-> status, now |-> t.now,
          isCreator |-> code = 200 /\ rooms[t.room].creatorId = t.user,
          isParticipant |-> isParticipant,
          canJoin |-> code = 200 /\ status = "live"
                        /\ (rooms[t.room].type = "public" \/ isParticipant),
          canChat |-> code = 200 /\ status = "live" /\ isParticipant]

\* storage.getRoom completes: 404, or the row is kept in the local `room`.
GetRoom(t) ==
    /\ t.pc = "getRoom"
    /\ IF t.room \notin DOMAIN rooms
       THEN GetDone(t, 404, "", FALSE)
       ELSE /\ gets' = (gets \ {t}) \cup
                 {[t EXCEPT !.status = rooms[t.room].status, !.pc = "isParticipant"]}
            /\ UNCHANGED lastDone
    /\ UNCHANGED <<client, now, dbVars, wsVars, sweeps, joins, posts, wsTasks, nreq>>

\* The status the lazy reconciliation writes for a local copy with status s
\* read at time t ("" when it writes nothing).
ReconcileTarget(r, s, t) ==
    LET isWithinTimeWindow == rooms[r].startTime <= t /\ rooms[r].endTime > t
    IN IF s = "live" /\ ~isWithinTimeWindow THEN "closed"
       ELSE IF s = "scheduled" /\ isWithinTimeWindow THEN "live"
       ELSE ""

\* storage.isRoomParticipant completes: 403, or the clock is read and the
\* reconciliation is decided; storage.updateRoomStatus is issued when needed.
GetIsParticipant(t) ==
    /\ t.pc = "isParticipant"
    /\ LET isP == <<t.room, t.user>> \in participants
           target == ReconcileTarget(t.room, t.status, now)
       IN IF /\ rooms[t.room].creatorId # t.user
             /\ ~isP
             /\ rooms[t.room].type # "public"
          THEN GetDone(t, 403, "", isP)
          ELSE /\ gets' = (gets \ {t}) \cup
                    {[t EXCEPT !.isParticipant = isP, !.now = now,
                               !.target = target,
                               !.pc = IF target # "" THEN "updateStatus"
                                      ELSE "respond"]}
               /\ UNCHANGED lastDone
    /\ UNCHANGED <<client, now, dbVars, wsVars, sweeps, joins, posts, wsTasks, nreq>>

\* storage.updateRoomStatus completes; room.status is set locally and the
\* change is broadcast to every open connection of every bucket.
GetUpdateStatus(t) ==
    /\ t.pc = "updateStatus"
    /\ rooms' = SetStatus({t.room}, t.target)
    /\ outbox' = BroadcastAll(<<StatusEvent(t.room, t.target)>>)
    /\ gets' = (gets \ {t}) \cup {[t EXCEPT !.status = t.target, !.pc = "respond"]}
    /\ UNCHANGED <<client, now, participants, invitations, messages, reactions, serial,
                   conns, roomConnections, sweeps, joins, posts, wsTasks, nreq,
                   lastDone>>

\* getRoomParticipants, getRoomMessages and getRoomReactions complete (reads
\* only) and the handler answers 200 with userAccess.
GetRespond(t) ==
    /\ t.pc = "respond"
    /\ GetDone(t, 200, t.status, t.isParticipant)
    /\ UNCHANGED <<client, now, dbVars, wsVars, sweeps, joins, posts, wsTasks, nreq>>

(***************************************************************************)
(* WebSocket connections: open, init frame, close.                         *)
(***************************************************************************)
NoUserData == [userId |-> 0, roomId |-> -1]

\* wss.on('connection'): userData = null.
WsConnect(c) ==
    /\ conns[c].state = "none"
    /\ conns' = [conns EXCEPT ![c] = [state |-> "open", userData |-> NoUserData,
                                      frames |-> 0, last |-> ""]]
    /\ UNCHANGED <<client, now, dbVars, roomConnections, outbox, taskVars, nreq, lastDone>>

\* roomConnections after ws registered under roomId (routes.ts 46-58; the
\* second add for roomId 0 adds the same socket to the same Set).
Register(c, roomId) ==
    [b \in DOMAIN roomConnections \cup {roomId} |->
        IF b = roomId THEN Bucket(b) \cup {c} ELSE roomConnections[b]]

\* A frame {type:'init', userId, roomId}.
WsInit(c, u, r) ==
    /\ IsOpen(c)
    /\ conns[c].frames < MaxFrames
    /\ conns' = [conns EXCEPT ![c].userData = [userId |-> u, roomId |-> r],
                              ![c].frames = @ + 1, ![c].last = "init"]
    /\ roomConnections' = Register(c, r)
    /\ outbox' = [outbox EXCEPT ![c] = Append(@, InitAck)]
    /\ UNCHANGED <<client, now, dbVars, taskVars, nreq, lastDone>>

\* Mutant of Unregister: the emptied bucket is not deleted.
UnregisterKeepsBucket(c, ud) ==
    IF ud = NoUserData \/ ud.roomId \notin DOMAIN roomConnections
    THEN roomConnections
    ELSE [roomConnections EXCEPT ![ud.roomId] = @ \ {c}]

\* roomConnections after the close handler ran for a socket whose closure
\* variable userData is ud.
Unregister(c, ud) ==
    IF ud = NoUserData \/ ud.roomId \notin DOMAIN roomConnections
    THEN roomConnections
    ELSE LET roomClients == roomConnections[ud.roomId] \ {c}
         IN IF roomClients = {}
            THEN [b \in DOMAIN roomConnections \ {ud.roomId} |-> roomConnections[b]]
            ELSE [roomConnections EXCEPT ![ud.roomId] = roomClients]

\* ws.on('close').
WsClose(c) ==
    /\ IsOpen(c)
    /\ conns' = [conns EXCEPT ![c].state = "closed"]
    /\ roomConnections' = Unregister(c, conns[c].userData)
    /\ UNCHANGED <<client, now, dbVars, outbox, taskVars, nreq, lastDone>>

(***************************************************************************)
(* POST /api/rooms/:id/join.                                               *)
(***************************************************************************)
JoinStart(u, r) ==
    /\ nreq < MaxReqs
    /\ nreq' = nreq + 1
    /\ joins' = joins \cup
         {[id |-> nreq + 1, user |-> u, room |-> r, pc |-> "getRoom",
           invitation |-> 0,
           wasParticipant |-> <<r, u>> \in participants]}
    /\ UNCHANGED <<client, now, dbVars, wsVars, sweeps, gets, posts, wsTasks, lastDone>>

\* The handler answers; status is the room status the handler read.
JoinDone(t, code, status) ==
    /\ joins' = joins \ {t}
    /\ lastDone' = [kind |-> "join", id |-> t.id, user |-> t.user, room |-> t.room,
                    code |-> code, status |-> status,
                    wasParticipant |-> t.wasParticipant]

JoinGoto(t, pc) ==
    /\ joins' = (joins \ {t}) \cup {[t EXCEPT !.pc = pc]}
    /\ UNCHANGED lastDone

\* storage.getRoom completes: 404, 400 when the row is not live, else the
\* capacity check (only for a truthy maxParticipants) or the participant check.
JoinGetRoom(t) ==
    /\ t.pc = "getRoom"
    /\ IF t.room \notin DOMAIN rooms THEN JoinDone(t, 404, "")
       ELSE IF rooms[t.room].status # "live"
            THEN JoinDone(t, 400, rooms[t.room].status)
       ELSE IF rooms[t.room].maxParticipants # 0 THEN JoinGoto(t, "getParticipants")
       ELSE JoinGoto(t, "isParticipant")
    /\ UNCHANGED <<client, now, dbVars, wsVars, sweeps, gets, posts, wsTasks, nreq>>

\* storage.getRoomParticipants completes: 400 at maximum capacity.
JoinGetParticipants(t) ==
    /\ t.pc = "getParticipants"
    /\ IF Cardinality({p \in participants : p[1] = t.room})
            >= rooms[t.room].maxParticipants
       THEN JoinDone(t, 400, "live")
       ELSE JoinGoto(t, "isParticipant")
    /\ UNCHANGED <<client, now, dbVars, wsVars, sweeps, gets, posts, wsTasks, nreq>>

\* Mutant of JoinIsParticipant: a private room is joined like a public one.
JoinIsParticipantNoGate(t) ==
    /\ t.pc = "isParticipant"
    /\ IF <<t.room, t.user>> \in participants THEN JoinDone(t, 200, "live")
       ELSE JoinGoto(t, "addCheck")
    /\ UNCHANGED <<client, now, dbVars, wsVars, sweeps, gets, posts, wsTasks, nreq>>

\* storage.isRoomParticipant completes: 200 for a participant; else the
\* invitation lookup (private) or storage.addRoomParticipant (public).
JoinIsParticipant(t) ==
    /\ t.pc = "isParticipant"
    /\ IF <<t.room, t.user>> \in participants THEN JoinDone(t, 200, "live")
       ELSE IF rooms[t.room].type = "private" THEN JoinGoto(t, "getInvitations")
       ELSE JoinGoto(t, "addCheck")
    /\ UNCHANGED <<client, now, dbVars, wsVars, sweeps, gets, posts, wsTasks, nreq>>

\* storage.getRoomInvitationsByRoom completes: 403 without an invitation of
\* the user, else storage.acceptRoomInvitation is called.
JoinGetInvitations(t) ==
    /\ t.pc = "getInvitations"
    /\ LET mine == {i \in invitations : i.roomId = t.room /\ i.userId = t.user}
       IN IF mine = {} THEN JoinDone(t, 403, "live")
          ELSE /\ joins' = (joins \ {t}) \cup
                    {[t EXCEPT !.pc = "accept",
                               !.invitation = Min({i.id : i \in mine})]}
               /\ UNCHANGED lastDone
    /\ UNCHANGED <<client, now, dbVars, wsVars, sweeps, gets, posts, wsTasks, nreq>>

\* storage.acceptRoomInvitation: the update completes; the invitation has a
\* userId, so storage.addRoomParticipant is called.
JoinAccept(t) ==
    /\ t.pc = "accept"
    /\ invitations' = {IF i.id = t.invitation THEN [i EXCEPT !.accepted = TRUE] ELSE i
                         : i \in invitations}
    /\ JoinGoto(t, "addCheck")
    /\ UNCHANGED <<client, now, rooms, participants, messages, reactions, serial, wsVars,
                   sweeps, gets, posts, wsTasks, nreq>>

\* storage.addRoomParticipant: its isRoomParticipant completes; it throws for
\* a participant (500), else issues the insert.
JoinAddCheck(t) ==
    /\ t.pc = "addCheck"
    /\ IF <<t.room, t.user>> \in participants THEN JoinDone(t, 500, "live")
       ELSE JoinGoto(t, "addInsert")
    /\ UNCHANGED <<client, now, dbVars, wsVars, sweeps, gets, posts, wsTasks, nreq>>

\* The primary key (roomId, userId) of room_participants.
ParticipantInsertOK(r, u) == <<r, u>> \notin participants

\* storage.addRoomParticipant: the insert completes, or fails on the key (500).
JoinAddInsert(t) ==
    /\ t.pc = "addInsert"
    /\ IF ParticipantInsertOK(t.room, t.user)
       THEN /\ participants' = participants \cup {<<t.room, t.user>>}
            /\ JoinDone(t, 200, "live")
       ELSE /\ UNCHANGED participants
            /\ JoinDone(t, 500, "live")
    /\ UNCHANGED <<client, now, rooms, invitations, messages, reactions, serial, wsVars,
                   sweeps, gets, posts, wsTasks, nreq>>

(***************************************************************************)
(* The tables messages and reactions.                                      *)
(***************************************************************************)
\* REACTION_TYPES (two of the six emoji stand for the set).
REACTION_TYPES == {"thumbsup", "party"}

\* messages: foreign keys room_id and user_id, content NOT NULL ("" stands
\* for an absent content).
MessageInsertOK(r, u, content) ==
    r \in DOMAIN rooms /\ u \in Users /\ content # ""

MessageRow(r, u, content) ==
    [id |-> serial.messages, roomId |-> r, userId |-> u, content |-> content]

\* Mutant of ReactionInsertOK: the table without its unique constraint.
ReactionInsertNoUnique(r, u, type) ==
    r \in DOMAIN rooms /\ u \in Users

\* reactions: the foreign keys and unique(room_id, user_id, type).
ReactionInsertOK(r, u, type) ==
    /\ r \in DOMAIN rooms
    /\ u \in Users
    /\ ~\E x \in reactions : x.roomId = r /\ x.userId = u /\ x.type = type

ReactionRow(r, u, type) ==
    [id |-> serial.reactions, roomId |-> r, userId |-> u, type |-> type]

\* storage.removeReaction.
RemoveReaction(r, u, type) ==
    {x \in reactions : ~(x.roomId = r /\ x.userId = u /\ x.type = type)}

\* Mutant of BroadcastRoom: the fan-out without its readyState check.
BroadcastRoomAnyState(r, skip, ev) ==
    [c \in Conns |->
        IF c \in Bucket(r) \ skip THEN Append(outbox[c], ev) ELSE outbox[c]]

\* roomClients.forEach(client => client.readyState === OPEN && client.send(ev))
\* over the bucket of room r, leaving out the connections in skip.
BroadcastRoom(r, skip, ev) ==
    [c \in Conns |->
        IF c \in Bucket(r) \ skip /\ IsOpen(c) THEN Append(outbox[c], ev)
        ELSE outbox[c]]

\* ws.send(ev): nothing is delivered on a socket that is no longer open.
SendTo(c, ev) ==
    [outbox EXCEPT ![c] = IF IsOpen(c) THEN Append(@, ev) ELSE @]

(***************************************************************************)
(* ws.on('message'): message and reaction frames.                          *)
(***************************************************************************)
IsBound(c) == conns[c].userData # NoUserData

\* The frame is counted; last is the type of the frame received last.
Received(c, type) ==
    [conns EXCEPT ![c].frames = @ + 1, ![c].last = type]

WsTask(c, kind, pc, content) ==
    [id |-> <<c, conns[c].frames + 1>>, conn |-> c, kind |-> kind, pc |-> pc,
     roomId |-> conns[c].userData.roomId, userId |-> conns[c].userData.userId,
     content |-> content, row |-> 0]

\* A frame {type:'message', content}: the traditional flow calls
\* storage.createMessage and awaits it.  Without userData nothing is done.
WsMessage(c, content) ==
    /\ IsOpen(c)
    /\ conns[c].frames < MaxFrames
    /\ conns' = Received(c, "message")
    /\ wsTasks' = IF IsBound(c)
                  THEN wsTasks \cup {WsTask(c, "message", "createMessage", content)}
                  ELSE wsTasks
    /\ UNCHANGED <<client, now, dbVars, roomConnections, outbox, sweeps, gets, joins,
                   posts, nreq, lastDone>>

\* A frame {type:'message', message:{content}}: storage.createMessage is
\* started in the background ("save") and the handler awaits storage.getUser
\* to echo the temporary message, id null ("echo").
WsMessageObject(c, content) ==
    /\ IsOpen(c)
    /\ conns[c].frames < MaxFrames
    /\ content # ""
    /\ conns' = Received(c, "message")
    /\ wsTasks' = IF IsBound(c)
                  THEN wsTasks \cup {WsTask(c, "save", "createMessage", content),
                                     WsTask(c, "echo", "getUser", content)}
                  ELSE wsTasks
    /\ UNCHANGED <<client, now, dbVars, roomConnections, outbox, sweeps, gets, joins,
                   posts, nreq, lastDone>>

\* storage.createMessage completes.  Traditional flow: the row is kept and
\* storage.getUser is awaited; a failure is caught and answered with an error
\* event.  Background save: the saved row is sent to the other open
\* connections of the bucket of the socket's current userData.roomId; a
\* failure is only logged.
WsCreateMessage(t) ==
    /\ t.pc = "createMessage"
    /\ serial' = [serial EXCEPT !.messages = @ + 1]
    /\ LET ok == MessageInsertOK(t.roomId, t.userId, t.content)
           row == MessageRow(t.roomId, t.userId, t.content)
       IN /\ messages' = IF ok THEN messages \cup {row} ELSE messages
          /\ wsTasks' = IF ok /\ t.kind = "message"
                        THEN (wsTasks \ {t}) \cup
                               {[t EXCEPT !.pc = "getUser", !.row = row.id]}
                        ELSE wsTasks \ {t}
          /\ outbox' = IF t.kind = "message"
                       THEN (IF ok THEN outbox ELSE SendTo(t.conn, ErrorEvent))
                       ELSE (IF ok
                             THEN BroadcastRoom(conns[t.conn].userData.roomId,
                                                {t.conn}, MessageEvent(row))
                             ELSE outbox)
    /\ UNCHANGED <<client, now, rooms, participants, invitations, reactions, conns,
                   roomConnections, sweeps, gets, joins, posts, nreq, lastDone>>

\* storage.getUser completes in a message handler: the message (the saved row,
\* or the temporary one with id null) is sent to the sender only.
WsMessageGetUser(t) ==
    /\ t.pc = "getUser"
    /\ t.kind \in {"message", "echo"}
    /\ outbox' = SendTo(t.conn,
                   Event("message", t.roomId, t.row, t.userId, t.content, ""))
    /\ wsTasks' = wsTasks \ {t}
    /\ UNCHANGED <<client, now, dbVars, conns, roomConnections, sweeps, gets, joins,
                   posts, nreq, lastDone>>

\* A frame {type:'reaction', reactionType}: a missing reactionType ("") is
\* answered with an error event; else storage.getUser is awaited.
WsReaction(c, type) ==
    /\ IsOpen(c)
    /\ conns[c].frames < MaxFrames
    /\ conns' = Received(c, "reaction")
    /\ wsTasks' = IF IsBound(c) /\ type # ""
                  THEN wsTasks \cup {WsTask(c, "reaction", "getUser", type)}
                  ELSE wsTasks
    /\ outbox' = IF IsBound(c) /\ type = ""
                 THEN [outbox EXCEPT ![c] = Append(@, ErrorEvent)]
                 ELSE outbox
    /\ UNCHANGED <<client, now, dbVars, roomConnections, sweeps, gets, joins, posts,
                   nreq, lastDone>>

\* storage.getUser completes in a reaction handler: storage.createReaction is
\* called with the socket's current userData and issues its delete.
WsReactionGetUser(t) ==
    /\ t.pc = "getUser"
    /\ t.kind = "reaction"
    /\ wsTasks' = (wsTasks \ {t}) \cup
         {[t EXCEPT !.pc = "removeReaction",
                    !.roomId = conns[t.conn].userData.roomId,
                    !.userId = conns[t.conn].userData.userId]}
    /\ UNCHANGED <<client, now, dbVars, wsVars, sweeps, gets, joins, posts, nreq, lastDone>>

\* storage.removeReaction completes; the insert is issued.
WsRemoveReaction(t) ==
    /\ t.pc = "removeReaction"
    /\ reactions' = RemoveReaction(t.roomId, t.userId, t.content)
    /\ wsTasks' = (wsTasks \ {t}) \cup {[t EXCEPT !.pc = "insertReaction"]}
    /\ UNCHANGED <<client, now, rooms, participants, invitations, messages, serial,
                   wsVars, sweeps, gets, joins, posts, nreq, lastDone>>

\* The insert of storage.createReaction completes: the row is broadcast to
\* the bucket of the socket's current userData.roomId, or the failure is
\* answered with an error event.
WsInsertReaction(t) ==
    /\ t.pc = "insertReaction"
    /\ serial' = [serial EXCEPT !.reactions = @ + 1]
    /\ LET ok == ReactionInsertOK(t.roomId, t.userId, t.content)
           row == ReactionRow(t.roomId, t.userId, t.content)
       IN /\ reactions' = IF ok THEN reactions \cup {row} ELSE reactions
          /\ outbox' = IF ok
                       THEN BroadcastRoom(conns[t.conn].userData.roomId, {},
                                          ReactionEvent(row))
                       ELSE SendTo(t.conn, ErrorEvent)
    /\ wsTasks' = wsTasks \ {t}
    /\ UNCHANGED <<client, now, rooms, participants, invitations, messages, conns,
                   roomConnections, sweeps, gets, joins, posts, nreq, lastDone>>

\* Mutant of WsMalformed: the exception of JSON.parse is not caught and the
\* socket is dropped.
WsMalformedDrops(c) ==
    /\ IsOpen(c)
    /\ conns[c].frames < MaxFrames
    /\ conns' = [Received(c, "malformed") EXCEPT ![c].state = "closed"]
    /\ roomConnections' = Unregister(c, conns[c].userData)
    /\ UNCHANGED <<client, now, dbVars, outbox, taskVars, nreq, lastDone>>

\* A frame that JSON.parse rejects: the outer catch answers with an error event.
WsMalformed(c) ==
    /\ IsOpen(c)
    /\ conns[c].frames < MaxFrames
    /\ conns' = Received(c, "malformed")
    /\ outbox' = [outbox EXCEPT ![c] = Append(@, ErrorEvent)]
    /\ UNCHANGED <<client, now, dbVars, roomConnections, taskVars, nreq, lastDone>>

(***************************************************************************)
(* POST /api/rooms/:id/messages and POST /api/rooms/:id/reactions.         *)
(***************************************************************************)
\* kind is "message" or "reaction"; body is req.body.content or req.body.type.
PostStart(kind, u, r, body) ==
    /\ nreq < MaxReqs
    /\ nreq' = nreq + 1
    /\ posts' = posts \cup
         {[id |-> nreq + 1, kind |-> kind, user |-> u, room |-> r,
           body |-> body, pc |-> "getRoom"]}
    /\ UNCHANGED <<client, now, dbVars, wsVars, sweeps, gets, joins, wsTasks, lastDone>>

PostDone(t, code, row) ==
    /\ posts' = posts \ {t}
    /\ lastDone' = [kind |-> t.kind, id |-> t.id, user |-> t.user, room |-> t.room,
                    code |-> code, row |-> row]

PostGoto(t, pc) ==
    /\ posts' = (posts \ {t}) \cup {[t EXCEPT !.pc = pc]}
    /\ UNCHANGED lastDone

\* Mutant of PostGetRoom: the handler without its status check.
PostGetRoomAnyStatus(t) ==
    /\ t.pc = "getRoom"
    /\ IF t.room \notin DOMAIN rooms THEN PostDone(t, 404, 0)
       ELSE PostGoto(t, "isParticipant")
    /\ UNCHANGED <<client, now, dbVars, wsVars, sweeps, gets, joins, wsTasks, nreq>>

\* storage.getRoom completes: 404, or 400 when the row is not live.
PostGetRoom(t) ==
    /\ t.pc = "getRoom"
    /\ IF t.room \notin DOMAIN rooms THEN PostDone(t, 404, 0)
       ELSE IF rooms[t.room].status # "live" THEN PostDone(t, 400, 0)
       ELSE PostGoto(t, "isParticipant")
    /\ UNCHANGED <<client, now, dbVars, wsVars, sweeps, gets, joins, wsTasks, nreq>>

\* insertMessageSchema / insertReactionSchema accept the body.
BodyValid(kind, body) ==
    IF kind = "message" THEN body # "" ELSE body \in REACTION_TYPES

\* storage.isRoomParticipant completes: 403, then the schema parses the body
\* (400) and the store call is issued.
PostIsParticipant(t) ==
    /\ t.pc = "isParticipant"
    /\ IF <<t.room, t.user>> \notin participants THEN PostDone(t, 403, 0)
       ELSE IF ~BodyValid(t.kind, t.body) THEN PostDone(t, 400, 0)
       ELSE IF t.kind = "message" THEN PostGoto(t, "createMessage")
       ELSE PostGoto(t, "removeReaction")
    /\ UNCHANGED <<client, now, dbVars, wsVars, sweeps, gets, joins, wsTasks, nreq>>

\* storage.createMessage completes: 201 with the row; nothing is broadcast.
PostCreateMessage(t) ==
    /\ t.pc = "createMessage"
    /\ serial' = [serial EXCEPT !.messages = @ + 1]
    /\ IF MessageInsertOK(t.room, t.user, t.body)
       THEN /\ messages' = messages \cup {MessageRow(t.room, t.user, t.body)}
            /\ PostDone(t, 201, serial.messages)
       ELSE /\ UNCHANGED messages
            /\ PostDone(t, 500, 0)
    /\ UNCHANGED <<client, now, rooms, participants, invitations, reactions, wsVars,
                   sweeps, gets, joins, wsTasks, nreq>>

\* storage.removeReaction completes inside storage.createReaction.
PostRemoveReaction(t) ==
    /\ t.pc = "removeReaction"
    /\ reactions' = RemoveReaction(t.room, t.user, t.body)
    /\ PostGoto(t, "insertReaction")
    /\ UNCHANGED <<client, now, rooms, participants, invitations, messages, serial,
                   wsVars, sweeps, gets, joins, wsTasks, nreq>>

\* The insert of storage.createReaction completes: the row is broadcast to the
\* room's bucket and answered with 201, or the failure with 500.
PostInsertReaction(t) ==
    /\ t.pc = "insertReaction"
    /\ serial' = [serial EXCEPT !.reactions = @ + 1]
    /\ IF ReactionInsertOK(t.room, t.user, t.body)
       THEN /\ reactions' = reactions \cup {ReactionRow(t.room, t.user, t.body)}
            /\ outbox' = BroadcastRoom(t.room, {},
                                       ReactionEvent(ReactionRow(t.room, t.user, t.body)))
            /\ PostDone(t, 201, serial.reactions)
       ELSE /\ UNCHANGED <<reactions, outbox>>
            /\ PostDone(t, 500, 0)
    /\ UNCHANGED <<client, now, rooms, participants, invitations, messages, conns,
                   roomConnections, sweeps, gets, joins, wsTasks, nreq>>

(***************************************************************************)
(* Initial states.  A run starts at time 0 from a store as POST /api/rooms *)
(* leaves it: each room with the status storage.createRoom computed and    *)
(* its creator as a participant; no connection yet, no handler running.    *)
(***************************************************************************)
RoomTypes == {"public", "private"}

\* The row storage.createRoom inserts at time t.
NewRoom(type, startTime, endTime, maxParticipants, creatorId, t) ==
    [type |-> type, status |-> InitialStatus(startTime, endTime, t),
     startTime |-> startTime, endTime |-> endTime,
     maxParticipants |-> maxParticipants, creatorId |-> creatorId]

\* The page of room-page.tsx before anything arrived: no event of the socket
\* read, processedMessagesRef and the messages Map of useWebSocket empty, no
\* roomData fetched, no temporary key generated.
NewPage == [read |-> 0, processed |-> {}, wsMessages |-> {}, fetched |-> {},
            temps |-> 0]

InitIdle ==
    /\ now = 0
    /\ messages = {}
    /\ reactions = {}
    /\ conns = [c \in Conns |-> [state |-> "none", userData |-> NoUserData,
                                 frames |-> 0, last |-> ""]]
    /\ roomConnections = << >>
    /\ outbox = [c \in Conns |-> << >>]
    /\ sweeps = {}
    /\ gets = {}
    /\ joins = {}
    /\ posts = {}
    /\ wsTasks = {}
    /\ nreq = 0
    /\ lastDone = NoTask
    /\ client = [c \in Conns |-> NewPage]

\* Lifecycle: one room of user 1 with any time window (the insert schema does
\* not order startTime and endTime).
InitLife ==
    /\ InitIdle
    /\ \E ty \in RoomTypes, st \in Times, en \in Times :
          rooms = (1 :> NewRoom(ty, st, en, 0, 1, 0))
    /\ participants = {<<1, 1>>}
    /\ invitations = {}
    /\ serial = [rooms |-> 2, invitations |-> 1, messages |-> 1, reactions |-> 1]

NextLife ==
    \/ Tick
    \/ \E u \in {0} : SweepStart("sweeper", u)
    \/ \E u \in Users : SweepStart("list", u)
    \/ \E t \in sweeps : SweepSelectLive(t)
    \/ \E t \in sweeps : SweepUpdateLive(t)
    \/ \E t \in sweeps : SweepSelectClose(t)
    \/ \E t \in sweeps : SweepUpdateClose(t)
    \/ \E u \in Users, r \in DOMAIN rooms \cup {MissingRoom} : GetStart(u, r)
    \/ \E t \in gets : GetRoom(t)
    \/ \E t \in gets : GetIsParticipant(t)
    \/ \E t \in gets : GetUpdateStatus(t)
    \/ \E t \in gets : GetRespond(t)

SpecLife == InitLife /\ [][NextLife]_vars

\* Sweeper and registry: the sweeper, the lazy reconciliation and the clock,
\* with connections that register, re-register and close.
NextSweep ==
    \/ Tick
    \/ \E u \in {0} : SweepStart("sweeper", u)
    \/ \E t \in sweeps : SweepSelectLive(t)
    \/ \E t \in sweeps : SweepUpdateLive(t)
    \/ \E t \in sweeps : SweepSelectClose(t)
    \/ \E t \in sweeps : SweepUpdateClose(t)
    \/ \E c \in Conns : WsConnect(c)
    \/ \E c \in Conns, r \in DOMAIN rooms \cup {0} : WsInit(c, 1, r)
    \/ \E c \in Conns : WsClose(c)

InitSweep ==
    /\ InitIdle
    /\ \E st \in Times, en \in Times :
          rooms = (1 :> NewRoom("public", st, en, 0, 1, 0))
    /\ participants = {<<1, 1>>}
    /\ invitations = {}
    /\ serial = [rooms |-> 2, invitations |-> 1, messages |-> 1, reactions |-> 1]

SpecSweep == InitSweep /\ [][NextSweep]_vars

\* An absent (undefined, NULL) userId or email of an invitation.  "" is the
\* JavaScript empty string, which is a value but not a truthy one.
NoUser == 0
NoEmail == "null"

\* The row storage.createRoomInvitation inserts for a known user.
UserInvitation(id, r, u) ==
    [id |-> id, roomId |-> r, userId |-> u, email |-> NoEmail, accepted |-> FALSE]

\* The invitations POST /api/rooms creates for the users of the sequence us.
InvitationsFor(r, us) == {UserInvitation(i, r, us[i]) : i \in DOMAIN us}

\* Joining: one room of user 1, public or private, with or without a cap
\* (the schema's minimum, 2), live or still scheduled, and its creator's
\* invitations for some of the other users.
InitJoin ==
    /\ InitIdle
    /\ \E ty \in RoomTypes, cap \in {0, 2}, st \in {0, 1} :
          rooms = (1 :> NewRoom(ty, st, MaxTime, cap, 1, 0))
    /\ participants = {<<1, 1>>}
    /\ \E invited \in SUBSET (Users \ {1}) :
          /\ invitations = InvitationsFor(1, SetToSeq(invited))
          /\ serial = [rooms |-> 2, invitations |-> Cardinality(invited) + 1,
                       messages |-> 1, reactions |-> 1]

NextJoin ==
    \/ \E u \in Users, r \in DOMAIN rooms \cup {MissingRoom} : JoinStart(u, r)
    \/ \E t \in joins : JoinGetRoom(t)
    \/ \E t \in joins : JoinGetParticipants(t)
    \/ \E t \in joins : JoinIsParticipant(t)
    \/ \E t \in joins : JoinGetInvitations(t)
    \/ \E t \in joins : JoinAccept(t)
    \/ \E t \in joins : JoinAddCheck(t)
    \/ \E t \in joins : JoinAddInsert(t)

SpecJoin == InitJoin /\ [][NextJoin]_vars

\* Registry: connections that open, send init frames (for room 1, room 2 or
\* the global channel 0), send frames before any init, and close.
InitRegistry ==
    /\ InitIdle
    /\ rooms = (1 :> NewRoom("public", 0, MaxTime, 0, 1, 0))
               @@ (2 :> NewRoom("public", 0, MaxTime, 0, 1, 0))
    /\ participants = {<<1, 1>>, <<2, 1>>}
    /\ invitations = {}
    /\ serial = [rooms |-> 3, invitations |-> 1, messages |-> 1, reactions |-> 1]

NextRegistry ==
    \/ \E c \in Conns : WsConnect(c)
    \/ \E c \in Conns, r \in 0..2 : WsInit(c, 1, r)
    \/ \E c \in Conns : WsMessage(c, "hi")
    \/ \E c \in Conns : WsReaction(c, "thumbsup")
    \/ \E c \in Conns : WsMalformed(c)
    \/ \E c \in Conns : WsClose(c)
    \/ \E t \in wsTasks : WsCreateMessage(t)
    \/ \E t \in wsTasks : WsMessageGetUser(t)
    \/ \E t \in wsTasks : WsReactionGetUser(t)
    \/ \E t \in wsTasks : WsRemoveReaction(t)
    \/ \E t \in wsTasks : WsInsertReaction(t)

SpecRegistry == InitRegistry /\ [][NextRegistry]_vars

\* Chat: one room of user 1 that is live, still scheduled or already closed;
\* users 1 (its creator) and 2 (no participant), over the live connection
\* and over POST /api/rooms/:id/messages.
InitChat ==
    /\ InitIdle
    /\ \E w \in {<<0, MaxTime>>, <<1, MaxTime>>, <<0, 0>>} :
          rooms = (1 :> NewRoom("public", w[1], w[2], 0, 1, 0))
    /\ participants = {<<1, 1>>}
    /\ invitations = {}
    /\ serial = [rooms |-> 2, invitations |-> 1, messages |-> 1, reactions |-> 1]

NextChat ==
    \/ \E c \in Conns : WsConnect(c)
    \/ \E c \in Conns, u \in {1, 2} : WsInit(c, u, 1)
    \/ \E c \in Conns : WsMessage(c, "hi")
    \/ \E c \in Conns : WsMessageObject(c, "hi")
    \/ \E c \in Conns : WsClose(c)
    \/ \E t \in wsTasks : WsCreateMessage(t)
    \/ \E t \in wsTasks : WsMessageGetUser(t)
    \/ \E u \in {1, 2}, body \in {"hi", ""} : PostStart("message", u, 1, body)
    \/ \E t \in posts : PostGetRoom(t)
    \/ \E t \in posts : PostIsParticipant(t)
    \/ \E t \in posts : PostCreateMessage(t)

SpecChat == InitChat /\ [][NextChat]_vars

\* Reactions: a live room of user 1; reactions of user 1 arrive as frames on
\* either connection and as POST /api/rooms/:id/reactions requests.
InitReact ==
    /\ InitIdle
    /\ rooms = (1 :> NewRoom("public", 0, MaxTime, 0, 1, 0))
    /\ participants = {<<1, 1>>}
    /\ invitations = {}
    /\ serial = [rooms |-> 2, invitations |-> 1, messages |-> 1, reactions |-> 1]

NextReact ==
    \/ \E c \in Conns : WsConnect(c)
    \/ \E c \in Conns : WsInit(c, 1, 1)
    \/ \E c \in Conns, ty \in {"thumbsup", ""} : WsReaction(c, ty)
    \/ \E c \in Conns : WsClose(c)
    \/ \E t \in wsTasks : WsReactionGetUser(t)
    \/ \E t \in wsTasks : WsRemoveReaction(t)
    \/ \E t \in wsTasks : WsInsertReaction(t)
    \/ \E u \in {1, 2}, ty \in {"thumbsup", "bogus"} : PostStart("reaction", u, 1, ty)
    \/ \E t \in posts : PostGetRoom(t)
    \/ \E t \in posts : PostIsParticipant(t)
    \/ \E t \in posts : PostRemoveReaction(t)
    \/ \E t \in posts : PostInsertReaction(t)

SpecReact == InitReact /\ [][NextReact]_vars

(***************************************************************************)
(* storage.createRoomInvitation and the table room_invitations.            *)
(***************************************************************************)
\* JavaScript truthiness of an optional userId / email.
HasUser(userId) == userId # NoUser
HasEmail(email) == email # NoEmail /\ email # ""

\* Mutant of InvitationRejected: only the second guard is left.
InvitationRejectedIfNeither(userId, email) ==
    ~HasUser(userId) /\ ~HasEmail(email)

\* The two guards of storage.createRoomInvitation.
InvitationRejected(userId, email) ==
    \/ HasUser(userId) /\ HasEmail(email)
    \/ ~HasUser(userId) /\ ~HasEmail(email)

\* room_invitations: the foreign keys, unique(room_id, user_id) and
\* unique(room_id, email); NULLs never collide.
InvitationInsertOK(r, userId, email) ==
    /\ r \in DOMAIN rooms
    /\ userId \in Users \cup {NoUser}
    /\ userId = NoUser \/ ~\E i \in invitations : i.roomId = r /\ i.userId = userId
    /\ email = NoEmail \/ ~\E i \in invitations : i.roomId = r /\ i.email = email

\* The table after storage.createRoomInvitation({roomId, userId, email}): a
\* rejected or failing call inserts nothing.
CreateRoomInvitation(r, userId, email) ==
    IF ~InvitationRejected(userId, email) /\ InvitationInsertOK(r, userId, email)
    THEN invitations \cup {[id |-> serial.invitations, roomId |-> r,
                            userId |-> userId, email |-> email, accepted |-> FALSE]}
    ELSE invitations

(***************************************************************************)
(* POST /api/rooms.                                                        *)
(***************************************************************************)
\* insertRoomSchema.parse: maxParticipants is optional (0) or an int >= 2;
\* startTime and endTime are coerced to dates and not compared.
RoomDataValid(type, startTime, endTime, maxParticipants) ==
    /\ type \in RoomTypes
    /\ maxParticipants = 0 \/ maxParticipants >= 2

\* An entry of req.body.invitations: {username} of a known user or {email}.
UsernameInvite(u) == [username |-> u, email |-> NoEmail]
EmailInvite(e) == [username |-> NoUser, email |-> e]

RoomCreatedEvent(r) == Event("room_created", r, 0, 0, "", "")
RoomInvitationEvent(r) == Event("room_invitation", r, 0, 0, "", "")

\* The handler parses the body (400) and calls storage.createRoom, which reads
\* the clock, computes the status and issues the insert.
CreateStart(u, type, startTime, endTime, maxParticipants, invites) ==
    /\ nreq < MaxReqs
    /\ nreq' = nreq + 1
    /\ IF RoomDataValid(type, startTime, endTime, maxParticipants)
       THEN /\ posts' = posts \cup
                 {[id |-> nreq + 1, kind |-> "createRoom", user |-> u, room |-> 0,
                   pc |-> "insertRoom", now |-> now,
                   row |-> NewRoom(type, startTime, endTime, maxParticipants, u, now),
                   invites |-> invites, invitedUserIds |-> {}]}
            /\ UNCHANGED lastDone
       ELSE /\ lastDone' = [kind |-> "createRoom", id |-> nreq + 1, user |-> u,
                            room |-> 0, code |-> 400,
                            startTime |-> startTime, endTime |-> endTime]
            /\ UNCHANGED posts
    /\ UNCHANGED <<client, now, dbVars, wsVars, sweeps, gets, joins, wsTasks>>

\* The response of POST /api/rooms.
CreateDone(t, code) ==
    /\ posts' = posts \ {t}
    /\ lastDone' = [kind |-> "createRoom", id |-> t.id, user |-> t.user,
                    room |-> t.room, code |-> code,
                    startTime |-> t.row.startTime, endTime |-> t.row.endTime]

\* Mutant of CreateBroadcast: a private room is announced to every bound
\* open client.
CreateBroadcastToAll(t, invited) ==
    [c \in Conns |->
        IF ~IsOpen(c) \/ ~IsBound(c) THEN outbox[c]
        ELSE IF t.row.type = "public"
             THEN outbox[c] \o Repeat(<<RoomCreatedEvent(t.room)>>, Visits(c))
        ELSE outbox[c] \o Repeat(<<RoomInvitationEvent(t.room)>>, Visits(c))]

\* routes.ts 348-373: room_created to every bound open client for a public
\* room, room_invitation to the clients of the invited users for a private one.
CreateBroadcast(t, invited) ==
    [c \in Conns |->
        IF ~IsOpen(c) \/ ~IsBound(c) THEN outbox[c]
        ELSE IF t.row.type = "public"
             THEN outbox[c] \o Repeat(<<RoomCreatedEvent(t.room)>>, Visits(c))
        ELSE IF conns[c].userData.userId \in invited
             THEN outbox[c] \o Repeat(<<RoomInvitationEvent(t.room)>>, Visits(c))
        ELSE outbox[c]]

\* The insert of storage.createRoom completes; addRoomParticipant is called.
CreateInsertRoom(t) ==
    /\ t.kind = "createRoom" /\ t.pc = "insertRoom"
    /\ rooms' = rooms @@ (serial.rooms :> t.row)
    /\ serial' = [serial EXCEPT !.rooms = @ + 1]
    /\ posts' = (posts \ {t}) \cup
         {[t EXCEPT !.room = serial.rooms, !.pc = "creatorCheck"]}
    /\ UNCHANGED <<client, now, participants, invitations, messages, reactions, wsVars,
                   sweeps, gets, joins, wsTasks, nreq, lastDone>>

\* addRoomParticipant: its isRoomParticipant completes; it throws for a
\* participant (500), else issues the insert.
CreateCreatorCheck(t) ==
    /\ t.kind = "createRoom" /\ t.pc = "creatorCheck"
    /\ IF <<t.room, t.user>> \in participants THEN CreateDone(t, 500)
       ELSE /\ posts' = (posts \ {t}) \cup {[t EXCEPT !.pc = "creatorInsert"]}
            /\ UNCHANGED lastDone
    /\ UNCHANGED <<client, now, dbVars, wsVars, sweeps, gets, joins, wsTasks, nreq>>

\* The insert of the creator's participant row completes; createRoom returns
\* and the handler walks req.body.invitations, or broadcasts and answers 201.
CreateCreatorInsert(t) ==
    /\ t.kind = "createRoom" /\ t.pc = "creatorInsert"
    /\ IF ~ParticipantInsertOK(t.room, t.user)
       THEN /\ CreateDone(t, 500)
            /\ UNCHANGED <<participants, outbox>>
       ELSE /\ participants' = participants \cup {<<t.room, t.user>>}
            /\ IF t.invites # << >>
               THEN /\ posts' = (posts \ {t}) \cup {[t EXCEPT !.pc = "invite"]}
                    /\ UNCHANGED <<lastDone, outbox>>
               ELSE /\ CreateDone(t, 201)
                    /\ outbox' = CreateBroadcast(t, {})
    /\ UNCHANGED <<client, now, rooms, invitations, messages, reactions, serial, conns,
                   roomConnections, sweeps, gets, joins, wsTasks, nreq>>

\* One entry of req.body.invitations: getUserByUsername (the users table never
\* changes) and storage.createRoomInvitation complete; a failure is logged and
\* the loop goes on.  After the last entry the handler broadcasts and answers.
CreateInvite(t) ==
    /\ t.kind = "createRoom" /\ t.pc = "invite"
    /\ LET invite == Head(t.invites)
           byUser == invite.username # NoUser
           known == invite.username \in Users
           userId == IF byUser THEN invite.username ELSE NoUser
           email == IF byUser THEN NoEmail ELSE invite.email
           called == (byUser /\ known) \/ (~byUser /\ HasEmail(invite.email))
           after == IF called THEN CreateRoomInvitation(t.room, userId, email)
                    ELSE invitations
           invited == IF byUser /\ known /\ after # invitations
                      THEN t.invitedUserIds \cup {userId} ELSE t.invitedUserIds
       IN /\ invitations' = after
          /\ serial' = IF called /\ ~InvitationRejected(userId, email)
                       THEN [serial EXCEPT !.invitations = @ + 1] ELSE serial
          /\ IF Tail(t.invites) # << >>
             THEN /\ posts' = (posts \ {t}) \cup
                       {[t EXCEPT !.invites = Tail(@), !.invitedUserIds = invited]}
                  /\ UNCHANGED <<lastDone, outbox>>
             ELSE /\ CreateDone(t, 201)
                  /\ outbox' = CreateBroadcast(t, invited)
    /\ UNCHANGED <<client, now, rooms, participants, messages, reactions, conns,
                   roomConnections, sweeps, gets, joins, wsTasks, nreq>>

\* Creation: an empty store; user 1 posts public rooms with any window, with
\* and without a cap (1 is below the schema's minimum), and private rooms
\* with invitations.
InitCreate ==
    /\ InitIdle
    /\ rooms = << >>
    /\ participants = {}
    /\ invitations = {}
    /\ serial = [rooms |-> 1, invitations |-> 1, messages |-> 1, reactions |-> 1]

\* The req.body.invitations of the requests: none, one user, the same user
\* twice, an email and a username that names no user.
CreateInvites ==
    {<< >>, <<UsernameInvite(2)>>, <<UsernameInvite(2), UsernameInvite(2)>>,
     <<EmailInvite("a@x.io"), UsernameInvite(NumUsers + 1)>>}

NextCreate ==
    \/ Tick
    \/ \E st \in Times, en \in Times, cap \in {0, 1}, inv \in {<< >>} :
          CreateStart(1, "public", st, en, cap, inv)
    \/ \E inv \in CreateInvites : CreateStart(1, "private", 0, MaxTime, 2, inv)
    \/ \E t \in posts : CreateInsertRoom(t)
    \/ \E t \in posts : CreateCreatorCheck(t)
    \/ \E t \in posts : CreateCreatorInsert(t)
    \/ \E t \in posts : CreateInvite(t)

SpecCreate == InitCreate /\ [][NextCreate]_vars

(***************************************************************************)
(* POST /api/invitations/:id/accept.                                       *)
(***************************************************************************)
AcceptStart(u, invitationId) ==
    /\ nreq < MaxReqs
    /\ nreq' = nreq + 1
    /\ posts' = posts \cup
         {[id |-> nreq + 1, kind |-> "accept", user |-> u, room |-> 0,
           invitation |-> invitationId, pc |-> "getInvitation"]}
    /\ UNCHANGED <<client, now, dbVars, wsVars, sweeps, gets, joins, wsTasks, lastDone>>

AcceptDone(t, code) ==
    /\ posts' = posts \ {t}
    /\ lastDone' = [kind |-> "accept", id |-> t.id, user |-> t.user,
                    room |-> t.room, invitation |-> t.invitation, code |-> code]

\* storage.getRoomInvitation completes: 404, 403 when the invitation names
\* another user (or an email), else storage.acceptRoomInvitation is called.
AcceptGetInvitation(t) ==
    /\ t.kind = "accept" /\ t.pc = "getInvitation"
    /\ LET found == {i \in invitations : i.id = t.invitation}
       IN IF found = {} THEN AcceptDone(t, 404)
          ELSE LET invitation == CHOOSE i \in found : TRUE
               IN IF invitation.userId # t.user THEN AcceptDone(t, 403)
                  ELSE /\ posts' = (posts \ {t}) \cup
                            {[t EXCEPT !.pc = "update", !.room = invitation.roomId]}
                       /\ UNCHANGED lastDone
    /\ UNCHANGED <<client, now, dbVars, wsVars, sweeps, gets, joins, wsTasks, nreq>>

\* storage.acceptRoomInvitation: the update completes; the invitation has a
\* userId, so storage.addRoomParticipant is called.
AcceptUpdate(t) ==
    /\ t.kind = "accept" /\ t.pc = "update"
    /\ invitations' = {IF i.id = t.invitation THEN [i EXCEPT !.accepted = TRUE] ELSE i
                         : i \in invitations}
    /\ posts' = (posts \ {t}) \cup {[t EXCEPT !.pc = "addCheck"]}
    /\ UNCHANGED <<client, now, rooms, participants, messages, reactions, serial, wsVars,
                   sweeps, gets, joins, wsTasks, nreq, lastDone>>

\* storage.addRoomParticipant: its isRoomParticipant completes; it throws for
\* a participant (500), else issues the insert.
AcceptAddCheck(t) ==
    /\ t.kind = "accept" /\ t.pc = "addCheck"
    /\ IF <<t.room, t.user>> \in participants THEN AcceptDone(t, 500)
       ELSE /\ posts' = (posts \ {t}) \cup {[t EXCEPT !.pc = "addInsert"]}
            /\ UNCHANGED lastDone
    /\ UNCHANGED <<client, now, dbVars, wsVars, sweeps, gets, joins, wsTasks, nreq>>

\* storage.addRoomParticipant: the insert completes (200), or fails on the
\* key (500).
AcceptAddInsert(t) ==
    /\ t.kind = "accept" /\ t.pc = "addInsert"
    /\ IF ParticipantInsertOK(t.room, t.user)
       THEN /\ participants' = participants \cup {<<t.room, t.user>>}
            /\ AcceptDone(t, 200)
       ELSE /\ UNCHANGED participants
            /\ AcceptDone(t, 500)
    /\ UNCHANGED <<client, now, rooms, invitations, messages, reactions, serial, wsVars,
                   sweeps, gets, joins, wsTasks, nreq>>

\* Access: the rooms and invitations of InitJoin, with join and accept
\* requests of any user interleaving.
NextAccess ==
    \/ NextJoin
    \/ \E u \in Users, i \in 1..NumUsers : AcceptStart(u, i)
    \/ \E t \in posts : AcceptGetInvitation(t)
    \/ \E t \in posts : AcceptUpdate(t)
    \/ \E t \in posts : AcceptAddCheck(t)
    \/ \E t \in posts : AcceptAddInsert(t)

SpecAccess == InitJoin /\ [][NextAccess]_vars

\* Posting: one room of user 1 that is live, still scheduled or already
\* closed; connections bind to it while messages and reactions are posted.
NextPost ==
    \/ \E c \in Conns : WsConnect(c)
    \/ \E c \in Conns : WsInit(c, 1, 1)
    \/ \E c \in Conns : WsClose(c)
    \/ \E u \in {1, 2} : PostStart("message", u, 1, "hi")
    \/ \E u \in {1, 2}, ty \in {"thumbsup", "bogus"} : PostStart("reaction", u, 1, ty)
    \/ \E t \in posts : PostGetRoom(t)
    \/ \E t \in posts : PostIsParticipant(t)
    \/ \E t \in posts : PostCreateMessage(t)
    \/ \E t \in posts : PostRemoveReaction(t)
    \/ \E t \in posts : PostInsertReaction(t)

SpecPost == InitChat /\ [][NextPost]_vars

(***************************************************************************)
(* The receiving client: the message listener of use-websocket.tsx and the *)
(* transcript room-page.tsx and room-chat.tsx build from it.  The frames  *)
(* of a run are sent within one second, so the rounded createdAt of       *)
(* the temporary keys is the same for all of them.                        *)
(***************************************************************************)
\* Keys of the client's Maps: a durable id, or a generated `temp-...` key
\* (Date.now() and Math.random() make each one new).
DurableKey(id) == [temp |-> FALSE, n |-> id]
TempKey(k) == [temp |-> TRUE, n |-> k]

\* messageKey of the listener: msg-<id>, or msg-temp-<userId>-<content>-<second>.
ProcessedKey(ev) ==
    IF ev.id # 0 THEN [temp |-> FALSE, id |-> ev.id, user |-> 0, content |-> ""]
    ELSE [temp |-> TRUE, id |-> 0, user |-> ev.user, content |-> ev.content]

\* setMessages of a message event: a durable id is set once; a message without
\* id is stored under a new temporary key, which becomes its id.
StoreMessage(page, ev) ==
    IF ev.id # 0
    THEN IF \E e \in page.wsMessages : e.key = DurableKey(ev.id)
         THEN page
         ELSE [page EXCEPT !.wsMessages = @ \cup
                 {[key |-> DurableKey(ev.id), userId |-> ev.user,
                   content |-> ev.content]}]
    ELSE [page EXCEPT !.wsMessages = @ \cup
            {[key |-> TempKey(page.temps + 1), userId |-> ev.user,
              content |-> ev.content]},
                      !.temps = @ + 1]

\* The listener handles the next event of the socket.  Keys of other event
\* types never equal the key of a message and are not kept here.
ClientReceive(c) ==
    /\ client[c].read < Len(outbox[c])
    /\ LET ev == outbox[c][client[c].read + 1]
           page == [client[c] EXCEPT !.read = @ + 1]
       IN client' = [client EXCEPT ![c] =
             IF ev.type # "message" \/ ProcessedKey(ev) \in page.processed
             THEN page
             ELSE StoreMessage([page EXCEPT !.processed = @ \cup {ProcessedKey(ev)}],
                               ev)]
    /\ UNCHANGED <<now, dbVars, wsVars, taskVars, nreq, lastDone>>

\* The setTimeout of the listener removes a key after ten seconds.
ClientExpire(c) ==
    /\ \E key \in client[c].processed :
          client' = [client EXCEPT ![c].processed = @ \ {key}]
    /\ UNCHANGED <<now, dbVars, wsVars, taskVars, nreq, lastDone>>

\* roomData of the page: GET /api/rooms/:id answered with the rows
\* storage.getRoomMessages read for room r.
ClientFetch(c, r) ==
    /\ client[c].fetched # {m \in messages : m.roomId = r}
    /\ client' = [client EXCEPT ![c].fetched = {m \in messages : m.roomId = r}]
    /\ UNCHANGED <<now, dbVars, wsVars, taskVars, nreq, lastDone>>

\* allMessages of room-page.tsx, as room-chat.tsx renders it: the fetched
\* rows keyed by id, then the socket's messages whose key is not there yet or
\* is a temporary key; room-chat keys the result by message.id again.
Transcript(c) ==
    LET fetched == {[key |-> DurableKey(m.id), userId |-> m.userId,
                     content |-> m.content] : m \in client[c].fetched}
    IN fetched \cup
         {e \in client[c].wsMessages :
             e.key.temp \/ ~\E f \in fetched : f.key = e.key}

\* Client: room 1 is live with users 1 and 2 as participants; connection c is
\* the page of user c, which sends each message once, in the object format of
\* room-page.tsx, with the number of the frame as content.
InitClient ==
    /\ InitIdle
    /\ rooms = (1 :> NewRoom("public", 0, MaxTime, 0, 1, 0))
    /\ participants = {<<1, 1>>, <<1, 2>>}
    /\ invitations = {}
    /\ serial = [rooms |-> 2, invitations |-> 1, messages |-> 1, reactions |-> 1]

NextClient ==
    \/ \E c \in Conns : WsConnect(c)
    \/ \E c \in Conns : WsInit(c, c, 1)
    \/ \E c \in Conns : WsMessageObject(c, ToString(conns[c].frames + 1))
    \/ \E t \in wsTasks : WsCreateMessage(t)
    \/ \E t \in wsTasks : WsMessageGetUser(t)
    \/ \E c \in Conns : ClientReceive(c)
    \/ \E c \in Conns : ClientExpire(c)
    \/ \E c \in Conns : ClientFetch(c, 1)

SpecClient == InitClient /\ [][NextClient]_vars

(***************************************************************************)
(* POST /api/rooms/:id/invitations, and storage.createRoomInvitation       *)
(* called on its own.                                                      *)
(***************************************************************************)
\* req.body.username is modelled by the id it resolves to (NoUser when the
\* field is absent, an id outside Users when no user has the name).
InviteStart(u, r, username, email) ==
    /\ nreq < MaxReqs
    /\ nreq' = nreq + 1
    /\ posts' = posts \cup
         {[id |-> nreq + 1, kind |-> "invite", user |-> u, room |-> r,
           username |-> username, email |-> email, pc |-> "inviteGetRoom"]}
    /\ UNCHANGED <<client, now, dbVars, wsVars, sweeps, gets, joins, wsTasks,
                   lastDone>>

InviteDone(t, code) ==
    /\ posts' = posts \ {t}
    /\ lastDone' = [kind |-> "invite", id |-> t.id, user |-> t.user,
                    room |-> t.room, code |-> code]

\* storage.getRoom completes: 404, 403 for anyone but the creator; then the
\* username is looked up, or the email is used, or the request is answered 400.
InviteGetRoom(t) ==
    /\ t.kind = "invite" /\ t.pc = "inviteGetRoom"
    /\ IF t.room \notin DOMAIN rooms THEN InviteDone(t, 404)
       ELSE IF rooms[t.room].creatorId # t.user THEN InviteDone(t, 403)
       ELSE IF t.username # NoUser
            THEN /\ posts' = (posts \ {t}) \cup {[t EXCEPT !.pc = "inviteGetUser"]}
                 /\ UNCHANGED lastDone
       ELSE IF HasEmail(t.email)
            THEN /\ posts' = (posts \ {t}) \cup
                      {[t EXCEPT !.pc = "inviteCreate", !.username = NoUser]}
                 /\ UNCHANGED lastDone
       ELSE InviteDone(t, 400)
    /\ UNCHANGED <<client, now, dbVars, wsVars, sweeps, gets, joins, wsTasks, nreq>>

\* storage.getUserByUsername completes: 404, else createRoomInvitation is
\* called with the user's id and no email.
InviteGetUser(t) ==
    /\ t.kind = "invite" /\ t.pc = "inviteGetUser"
    /\ IF t.username \notin Users THEN InviteDone(t, 404)
       ELSE /\ posts' = (posts \ {t}) \cup
                 {[t EXCEPT !.pc = "inviteCreate", !.email = NoEmail]}
            /\ UNCHANGED lastDone
    /\ UNCHANGED <<client, now, dbVars, wsVars, sweeps, gets, joins, wsTasks, nreq>>

\* routes.ts 709-735: the open clients of the invited user are notified.
InviteNotify(r, invitedUserId) ==
    [c \in Conns |->
        IF IsOpen(c) /\ IsBound(c) /\ invitedUserId # NoUser
           /\ conns[c].userData.userId = invitedUserId
        THEN outbox[c] \o Repeat(<<RoomInvitationEvent(r)>>, Visits(c))
        ELSE outbox[c]]

\* storage.createRoomInvitation completes: 201 and the notification, or 500.
InviteCreate(t) ==
    /\ t.kind = "invite" /\ t.pc = "inviteCreate"
    /\ LET after == CreateRoomInvitation(t.room, t.username, t.email)
       IN /\ invitations' = after
          /\ serial' = IF InvitationRejected(t.username, t.email) THEN serial
                       ELSE [serial EXCEPT !.invitations = @ + 1]
          /\ IF after # invitations
             THEN /\ outbox' = InviteNotify(t.room, t.username)
                  /\ InviteDone(t, 201)
             ELSE /\ UNCHANGED outbox
                  /\ InviteDone(t, 500)
    /\ UNCHANGED <<client, now, rooms, participants, messages, reactions, conns,
                   roomConnections, sweeps, gets, joins, wsTasks, nreq>>

\* storage.createRoomInvitation({roomId, userId, email}) called with any
\* value of the two optional fields.
StorageCreateRoomInvitation(r, userId, email) ==
    /\ nreq < MaxReqs
    /\ nreq' = nreq + 1
    /\ invitations' = CreateRoomInvitation(r, userId, email)
    /\ serial' = IF InvitationRejected(userId, email) THEN serial
                 ELSE [serial EXCEPT !.invitations = @ + 1]
    /\ lastDone' = [kind |-> "createRoomInvitation", id |-> nreq + 1, room |-> r,
                    userId |-> userId, email |-> email]
    /\ UNCHANGED <<client, now, rooms, participants, messages, reactions, wsVars,
                   taskVars>>

\* Invitations: the private room 1 of user 1; users 1 and 2 post invitations
\* while user 2's page may be connected, and the store method is called with
\* every combination of its optional fields.
InitInvite ==
    /\ InitIdle
    /\ rooms = (1 :> NewRoom("private", 0, MaxTime, 0, 1, 0))
    /\ participants = {<<1, 1>>}
    /\ invitations = {}
    /\ serial = [rooms |-> 2, invitations |-> 1, messages |-> 1, reactions |-> 1]

NextInvite ==
    \/ \E c \in Conns : WsConnect(c)
    \/ \E c \in Conns : WsInit(c, 2, 0)
    \/ \E u \in {1, 2}, r \in {1, MissingRoom}, username \in {NoUser, 2, NumUsers + 1},
          email \in {NoEmail, "", "a@x.io"} : InviteStart(u, r, username, email)
    \/ \E t \in posts : InviteGetRoom(t)
    \/ \E t \in posts : InviteGetUser(t)
    \/ \E t \in posts : InviteCreate(t)
    \/ \E userId \in {NoUser, 2}, email \in {NoEmail, "", "a@x.io"} :
          StorageCreateRoomInvitation(1, userId, email)

SpecInvite == InitInvite /\ [][NextInvite]_vars

(***************************************************************************)
(* The sweeper as a process that never stops: setInterval fires again      *)
(* after the previous callback has returned, and the store answers.       *)
(***************************************************************************)
SweeperTick ==
    /\ sweeps = {}
    /\ sweeps' = {[id |-> 0, kind |-> "sweeper", user |-> 0, pc |-> "selectLive",
                   now |-> now, goingLive |-> {}, goingClosed |-> {}]}
    /\ UNCHANGED <<client, now, dbVars, wsVars, gets, joins, posts, wsTasks, nreq,
                   lastDone>>

\* Any step of the sweeper: a tick, or a store call of the tick completing.
SweeperRuns ==
    \/ SweeperTick
    \/ \E t \in sweeps : SweepSelectLive(t)
    \/ \E t \in sweeps : SweepUpdateLive(t)
    \/ \E t \in sweeps : SweepSelectClose(t)
    \/ \E t \in sweeps : SweepUpdateClose(t)

NextLiveness ==
    \/ Tick
    \/ SweeperRuns

\* Time passes, the sweeper keeps ticking and its store calls complete.
SpecLiveness ==
    InitLife /\ [][NextLiveness]_vars /\ WF_vars(Tick) /\ WF_vars(SweeperRuns)

\* Frames of bound connections, with a store that can fail.
\* storage.createMessage rejects (the pool or the connection to the database
\* fails): the traditional flow catches it and answers with an error event;
\* the .catch of the background save only logs it.
WsCreateMessageFails(t) ==
    /\ t.pc = "createMessage"
    /\ wsTasks' = wsTasks \ {t}
    /\ outbox' = IF t.kind = "message" THEN SendTo(t.conn, ErrorEvent) ELSE outbox
    /\ UNCHANGED <<client, now, dbVars, conns, roomConnections, sweeps, gets, joins,
                   posts, nreq, lastDone>>

\* Order: room 1 is live with users 1 and 2 as participants; connection c is
\* open, has sent its init frame as user c for room 1 and got the
\* confirmation.  frames counts the frames received after that; the content
\* of a message is the number of its frame.
InitOrder ==
    /\ now = 0
    /\ rooms = (1 :> NewRoom("public", 0, MaxTime, 0, 1, 0))
    /\ participants = {<<1, 1>>, <<1, 2>>}
    /\ invitations = {}
    /\ messages = {}
    /\ reactions = {}
    /\ serial = [rooms |-> 2, invitations |-> 1, messages |-> 1, reactions |-> 1]
    /\ conns = [c \in Conns |->
                  [state |-> "open", userData |-> [userId |-> c, roomId |-> 1],
                   frames |-> 0, last |-> "init"]]
    /\ roomConnections = (1 :> Conns)
    /\ outbox = [c \in Conns |-> <<InitAck>>]
    /\ sweeps = {}
    /\ gets = {}
    /\ joins = {}
    /\ posts = {}
    /\ wsTasks = {}
    /\ nreq = 0
    /\ lastDone = NoTask
    /\ client = [c \in Conns |-> NewPage]

NextOrder ==
    \/ \E c \in Conns : WsMessage(c, ToString(conns[c].frames + 1))
    \/ \E c \in Conns : WsMessageObject(c, ToString(conns[c].frames + 1))
    \/ \E t \in wsTasks : WsCreateMessage(t)
    \/ \E t \in wsTasks : WsCreateMessageFails(t)
    \/ \E t \in wsTasks : WsMessageGetUser(t)
    \/ \E c \in Conns : WsClose(c)

SpecOrder == InitOrder /\ [][NextOrder]_vars

\* Stale statuses: the room of InitChat while the clock advances and no
\* sweeper tick has run yet; user 1 (its creator) posts a message, user 2
\* joins, and both fetch the room (the room is public and has no cap: the
\* join handler checks neither the capacity nor the invitations).
NextStale ==
    \/ Tick
    \/ PostStart("message", 1, 1, "hi")
    \/ \E t \in posts : PostGetRoom(t)
    \/ \E t \in posts : PostIsParticipant(t)
    \/ \E t \in posts : PostCreateMessage(t)
    \/ JoinStart(2, 1)
    \/ \E t \in joins : JoinGetRoom(t)
    \/ \E t \in joins : JoinIsParticipant(t)
    \/ \E t \in joins : JoinAddCheck(t)
    \/ \E t \in joins : JoinAddInsert(t)
    \/ \E u \in {1, 2} : GetStart(u, 1)
    \/ \E t \in gets : GetRoom(t)
    \/ \E t \in gets : GetIsParticipant(t)
    \/ \E t \in gets : GetUpdateStatus(t)
    \/ \E t \in gets : GetRespond(t)

SpecStale == InitChat /\ [][NextStale]_vars

\* Reaction types: the room of InitReact; user 1 sends reactions of a type of
\* REACTION_TYPES or of another type ("bogus"), as frames and as POST
\* /api/rooms/:id/reactions requests.
NextEmoji ==
    \/ \E c \in Conns : WsConnect(c)
    \/ \E c \in Conns : WsInit(c, 1, 1)
    \/ \E c \in Conns, ty \in {"thumbsup", "bogus"} : WsReaction(c, ty)
    \/ \E t \in wsTasks : WsReactionGetUser(t)
    \/ \E t \in wsTasks : WsRemoveReaction(t)
    \/ \E t \in wsTasks : WsInsertReaction(t)
    \/ \E ty \in {"thumbsup", "bogus"} : PostStart("reaction", 1, 1, ty)
    \/ \E t \in posts : PostGetRoom(t)
    \/ \E t \in posts : PostIsParticipant(t)
    \/ \E t \in posts : PostRemoveReaction(t)
    \/ \E t \in posts : PostInsertReaction(t)

SpecEmoji == InitReact /\ [][NextEmoji]_vars

\* A store call of updateRoomStatuses rejects: the call throws, the catch of
\* the setInterval callback logs the error and the tick ends, with whatever
\* the earlier store calls of the tick wrote and without any broadcast.
SweepFails(t) ==
    /\ t.kind = "sweeper"
    /\ sweeps' = sweeps \ {t}
    /\ UNCHANGED <<client, now, dbVars, wsVars, gets, joins, posts, wsTasks, nreq,
                   lastDone>>

\* Failing store: one room of user 1 that was scheduled when it was created;
\* every connection is open and registered for it and stays so.
InitFail ==
    /\ now = 0
    /\ \E st \in Times \ {0}, en \in Times \ {0} :
          rooms = (1 :> NewRoom("public", st, en, 0, 1, 0))
    /\ participants = {<<1, 1>>}
    /\ invitations = {}
    /\ messages = {}
    /\ reactions = {}
    /\ serial = [rooms |-> 2, invitations |-> 1, messages |-> 1, reactions |-> 1]
    /\ conns = [c \in Conns |->
                  [state |-> "open", userData |-> [userId |-> c, roomId |-> 1],
                   frames |-> 0, last |-> "init"]]
    /\ roomConnections = (1 :> Conns)
    /\ outbox = [c \in Conns |-> <<InitAck>>]
    /\ sweeps = {}
    /\ gets = {}
    /\ joins = {}
    /\ posts = {}
    /\ wsTasks = {}
    /\ nreq = 0
    /\ lastDone = NoTask
    /\ client = [c \in Conns |-> NewPage]

NextFail ==
    \/ Tick
    \/ SweeperRuns
    \/ \E t \in sweeps : SweepFails(t)

\* The sweeper keeps ticking; a store call may fail any number of times, but
\* a call that is issued again and again eventually succeeds (the store is
\* transiently unavailable, not for ever).
SpecFail ==
    /\ InitFail
    /\ [][NextFail]_vars
    /\ WF_vars(Tick)
    /\ WF_vars(SweeperTick)
    /\ SF_vars(\E t \in sweeps : SweepSelectLive(t))
    /\ SF_vars(\E t \in sweeps : SweepUpdateLive(t))
    /\ SF_vars(\E t \in sweeps : SweepSelectClose(t))
    /\ SF_vars(\E t \in sweeps : SweepUpdateClose(t))

\* Fan-out: room 1, public, was created at time 0 to start at time 1 and is
\* still stored scheduled at time 1, or at its endTime.  Connection 1 is the page of user 2 or
\* 3, which sent an init frame for room 1 and then one for the global channel
\* 0, so that it is a member of both buckets; connection 2 is the page of
\* user 3 in room 1.  Both are open and have their confirmations.
InitFanout ==
    /\ now \in {1, MaxTime}
    /\ rooms = (1 :> NewRoom("public", 1, MaxTime, 0, 1, 0))
    /\ participants = {<<1, 1>>}
    /\ invitations = {}
    /\ messages = {}
    /\ reactions = {}
    /\ serial = [rooms |-> 2, invitations |-> 1, messages |-> 1, reactions |-> 1]
    /\ \E u \in {2, 3} :
          conns = (1 :> [state |-> "open", userData |-> [userId |-> u, roomId |-> 0],
                         frames |-> 2, last |-> "init"])
                  @@ (2 :> [state |-> "open",
                            userData |-> [userId |-> 3, roomId |-> 1],
                            frames |-> 1, last |-> "init"])
    /\ roomConnections = (0 :> {1}) @@ (1 :> {1, 2})
    /\ outbox = (1 :> <<InitAck, InitAck>>) @@ (2 :> <<InitAck>>)
    /\ sweeps = {}
    /\ gets = {}
    /\ joins = {}
    /\ posts = {}
    /\ wsTasks = {}
    /\ nreq = 0
    /\ lastDone = NoTask
    /\ client = [c \in Conns |-> NewPage]

\* The connections close; connection 2 sends a reaction or a message; the
\* sweeper runs; user 1 creates a public room, or a private room with
\* invitations.
NextFanout ==
    \/ \E c \in Conns : WsClose(c)
    \/ WsReaction(2, "thumbsup")
    \/ WsMessageObject(2, "hi")
    \/ \E t \in wsTasks : WsCreateMessage(t)
    \/ \E t \in wsTasks : WsMessageGetUser(t)
    \/ \E t \in wsTasks : WsReactionGetUser(t)
    \/ \E t \in wsTasks : WsRemoveReaction(t)
    \/ \E t \in wsTasks : WsInsertReaction(t)
    \/ SweepStart("sweeper", 0)
    \/ \E t \in sweeps : SweepSelectLive(t)
    \/ \E t \in sweeps : SweepUpdateLive(t)
    \/ \E t \in sweeps : SweepSelectClose(t)
    \/ \E t \in sweeps : SweepUpdateClose(t)
    \/ CreateStart(1, "public", 0, MaxTime, 0, << >>)
    \/ \E inv \in CreateInvites : CreateStart(1, "private", 0, MaxTime, 2, inv)
    \/ \E t \in posts : CreateInsertRoom(t)
    \/ \E t \in posts : CreateCreatorCheck(t)
    \/ \E t \in posts : CreateCreatorInsert(t)
    \/ \E t \in posts : CreateInvite(t)

SpecFanout == InitFanout /\ [][NextFanout]_vars

\* canJoin: one room of user 1, public or private, with or without a cap,
\* live or still scheduled; user 2 may hold an invitation and user 3 may have
\* joined the public room.  User 2 fetches the room and then, having the
\* answer, joins; nothing else runs.
InitCanJoin ==
    /\ InitIdle
    /\ \E ty \in RoomTypes, cap \in {0, 2}, st \in {0, 1} :
          rooms = (1 :> NewRoom(ty, st, MaxTime, cap, 1, 0))
    /\ participants \in {{<<1, 1>>}} \cup
                        (IF rooms[1].type = "public" THEN {{<<1, 1>>, <<1, 3>>}} ELSE {})
    /\ \E invited \in SUBSET {2} :
          /\ invitations = InvitationsFor(1, SetToSeq(invited))
          /\ serial = [rooms |-> 2, invitations |-> Cardinality(invited) + 1,
                       messages |-> 1, reactions |-> 1]

NextCanJoin ==
    \/ nreq = 0 /\ GetStart(2, 1)
    \/ \E t \in gets : GetRoom(t)
    \/ \E t \in gets : GetIsParticipant(t)
    \/ \E t \in gets : GetRespond(t)
    \/ lastDone.kind = "get" /\ JoinStart(2, 1)
    \/ \E t \in joins : JoinGetRoom(t)
    \/ \E t \in joins : JoinGetParticipants(t)
    \/ \E t \in joins : JoinIsParticipant(t)
    \/ \E t \in joins : JoinGetInvitations(t)
    \/ \E t \in joins : JoinAccept(t)
    \/ \E t \in joins : JoinAddCheck(t)
    \/ \E t \in joins : JoinAddInsert(t)

SpecCanJoin == InitCanJoin /\ [][NextCanJoin]_vars

\* storage.getRoomsByInvitation: the rooms of the user's invitations that are
\* not accepted, which GET /api/rooms returns under `invited`.
GetRoomsByInvitation(u) ==
    {i.roomId : i \in {j \in invitations : j.userId = u /\ ~j.accepted}}

\* Rebinding: rooms 1 and 2 are live and user 1 participates in both;
\* connection c is open and has sent its init frame for room c as user 1.
\* frames counts the frames received after that: messages, reactions and
\* further init frames for either room.
InitRebind ==
    /\ now = 0
    /\ rooms = (1 :> NewRoom("public", 0, MaxTime, 0, 1, 0))
               @@ (2 :> NewRoom("public", 0, MaxTime, 0, 1, 0))
    /\ participants = {<<1, 1>>, <<2, 1>>}
    /\ invitations = {}
    /\ messages = {}
    /\ reactions = {}
    /\ serial = [rooms |-> 3, invitations |-> 1, messages |-> 1, reactions |-> 1]
    /\ conns = [c \in Conns |->
                  [state |-> "open", userData |-> [userId |-> 1, roomId |-> c],
                   frames |-> 0, last |-> "init"]]
    /\ roomConnections = [c \in Conns |-> {c}]
    /\ outbox = [c \in Conns |-> <<InitAck>>]
    /\ sweeps = {}
    /\ gets = {}
    /\ joins = {}
    /\ posts = {}
    /\ wsTasks = {}
    /\ nreq = 0
    /\ lastDone = NoTask
    /\ client = [c \in Conns |-> NewPage]

NextRebind ==
    \/ \E c \in Conns, r \in {1, 2} : WsInit(c, 1, r)
    \/ \E c \in Conns : WsMessageObject(c, "hi")
    \/ \E c \in Conns : WsReaction(c, "thumbsup")
    \/ \E t \in wsTasks : WsCreateMessage(t)
    \/ \E t \in wsTasks : WsMessageGetUser(t)
    \/ \E t \in wsTasks : WsReactionGetUser(t)
    \/ \E t \in wsTasks : WsRemoveReaction(t)
    \/ \E t \in wsTasks : WsInsertReaction(t)

SpecRebind == InitRebind /\ [][NextRebind]_vars

\* Announcements: the room and the connections of InitFail; the clock
\* advances, the sweeper ticks, user 1 lists the rooms (GET /api/rooms) and
\* fetches room 1 (GET /api/rooms/:id).
GetRuns ==
    \/ \E t \in gets : GetRoom(t)
    \/ \E t \in gets : GetIsParticipant(t)
    \/ \E t \in gets : GetUpdateStatus(t)
    \/ \E t \in gets : GetRespond(t)

NextAnnounce ==
    \/ Tick
    \/ SweeperRuns
    \/ SweepStart("list", 1)
    \/ GetStart(1, 1)
    \/ GetRuns

\* Time passes, the sweeper keeps ticking and every handler runs to its end.
SpecAnnounce ==
    /\ InitFail
    /\ [][NextAnnounce]_vars
    /\ WF_vars(Tick)
    /\ WF_vars(SweeperRuns)
    /\ WF_vars(GetRuns)

\* The whole engine on the rooms of InitRegistry.
Init == InitRegistry

Next ==
    \/ NextLife
    \/ NextSweep
    \/ NextJoin
    \/ NextRegistry
    \/ NextChat
    \/ NextReact
    \/ NextCreate
    \/ NextAccess
    \/ NextPost
    \/ NextClient
    \/ NextInvite
    \/ NextLiveness
    \/ NextOrder
    \/ NextStale
    \/ NextEmoji
    \/ NextFail
    \/ NextFanout
    \/ NextCanJoin
    \/ NextRebind
    \/ NextAnnounce

Spec == Init /\ [][Next]_vars

(***************************************************************************)
(* Properties.                                                             *)
(***************************************************************************)
StatusRank(status) ==
    CASE status = "scheduled" -> 0
      [] status = "live" -> 1
      [] status = "closed" -> 2

\* The reference function of the specification: computeStatus(room, now).
ComputeStatus(r, t) ==
    IF t < rooms[r].startTime THEN "scheduled"
    ELSE IF t < rooms[r].endTime THEN "live"
    ELSE "closed"

\* The events the step appends to the outbox of connection c.
NewEvents(c) == SubSeq(outbox'[c], Len(outbox[c]) + 1, Len(outbox'[c]))

\* How many events of connection c's outbox (after the step) satisfy Test.
CountAfter(c, Test(_)) ==
    Cardinality({i \in 1..Len(outbox'[c]) : Test(outbox'[c][i])})

\* Task t has taken this step (tasks carry unique ids).
Stepped(t, tasks) == t \in tasks /\ t \notin tasks'
Finished(t, tasks) == t \in tasks /\ \A t2 \in tasks' : t2.id # t.id

\* C1: under any interleaving of sweeper ticks, GET /api/rooms, GET
\* /api/rooms/:id and the clock, no step moves the stored status of a room
\* (endTime > startTime) backwards along scheduled -> live -> closed.
C1_StatusOnlyMovesForward ==
    [][\A r \in DOMAIN rooms :
          rooms[r].startTime < rooms[r].endTime =>
             StatusRank(rooms'[r].status) >= StatusRank(rooms[r].status)]_vars

\* C2: immediately after a completed updateRoomStatuses call, and after the
\* reconciliation of a GET /api/rooms/:id, the stored status of a room
\* (endTime > startTime) equals computeStatus(room, now), now being the time
\* the call read.
C2_StatusMatchesClockAfterReconcile ==
    [][/\ \A t \in sweeps : Finished(t, sweeps) =>
             \A r \in DOMAIN rooms :
                rooms[r].startTime < rooms[r].endTime =>
                   rooms'[r].status = ComputeStatus(r, t.now)
       /\ \A t \in gets : \A t2 \in gets' :
             (/\ t.id = t2.id
              /\ t.pc \in {"isParticipant", "updateStatus"}
              /\ t2.pc = "respond"
              /\ rooms[t.room].startTime < rooms[t.room].endTime) =>
                rooms'[t.room].status = ComputeStatus(t.room, t2.now)]_vars

\* C3: every message row is inserted while its room is stored live and its
\* author is a participant of the room.
C3_MessagesOnlyInLiveRoomByParticipant ==
    [][\A m \in messages' \ messages :
          /\ rooms[m.roomId].status = "live"
          /\ <<m.roomId, m.userId>> \in participants]_vars

\* C4: when the handling of a frame {type:"message", content} of a bound
\* connection completes, every open connection registered for the room has
\* received exactly one message event with the id of the persisted row.
C4_MessageFrameReachesWholeRoom ==
    [][\A t \in wsTasks :
          (t.kind = "message" /\ t.pc = "getUser" /\ Finished(t, wsTasks)) =>
             /\ \E m \in messages' :
                   m = [id |-> t.row, roomId |-> t.roomId, userId |-> t.userId,
                        content |-> t.content]
             /\ \A b \in Bucket(t.roomId) :
                   IsOpen(b) =>
                      LET IsIt(ev) == ev.type = "message" /\ ev.id = t.row
                                        /\ ev.content = t.content
                      IN CountAfter(b, IsIt) = 1]_vars

\* C5: the reactions table holds at most one row per (roomId, userId, type).
C5_OneReactionPerTriple ==
    \A x \in reactions : \A y \in reactions :
        (x.roomId = y.roomId /\ x.userId = y.userId /\ x.type = y.type) => x = y

\* C5 witness: a second reaction of the same type by the same user was
\* answered with 201 and its row replaced the first one.
C5_Witness ==
    /\ lastDone.kind = "reaction"
    /\ lastDone.code = 201
    /\ lastDone.row >= 2
    /\ reactions = {[id |-> lastDone.row, roomId |-> 1, userId |-> 1,
                     type |-> "thumbsup"]}

\* C6: a join by a user who already is a participant of a live room is
\* answered with 200 and changes neither participants nor invitations,
\* whatever the cap and the participant count.
C6_RejoinIsIdempotent ==
    [][\A t \in joins :
          (/\ Stepped(t, joins)
           /\ t.wasParticipant
           /\ t.room \in DOMAIN rooms
           /\ rooms[t.room].status = "live") =>
             /\ participants' = participants
             /\ invitations' = invitations
             /\ Finished(t, joins) => lastDone'.code = 200]_vars

\* C7: every join of a public live room without maxParticipants is answered
\* with 200 and leaves the user a participant.
C7_PublicJoinSucceeds ==
    (/\ lastDone.kind = "join"
     /\ lastDone.room \in DOMAIN rooms
     /\ rooms[lastDone.room].type = "public"
     /\ rooms[lastDone.room].status = "live"
     /\ rooms[lastDone.room].maxParticipants = 0) =>
        /\ lastDone.code = 200
        /\ <<lastDone.room, lastDone.user>> \in participants

\* C8: a closed connection is a member of no bucket of the registry.
C8_ClosedConnectionInNoBucket ==
    \A c \in Conns :
        conns[c].state = "closed" =>
           \A b \in DOMAIN roomConnections : c \notin roomConnections[b]

\* C9: a message or reaction frame on a connection that has sent no init is
\* answered with an error event, persists nothing and leaves the connection
\* unbound and unregistered.
C9_UnboundFrameRejected ==
    [][\A c \in Conns :
          (/\ ~IsBound(c)
           /\ conns'[c].frames = conns[c].frames + 1
           /\ conns'[c].last \in {"message", "reaction"}) =>
             /\ outbox'[c] = Append(outbox[c], ErrorEvent)
             /\ messages' = messages
             /\ reactions' = reactions
             /\ wsTasks' = wsTasks
             /\ conns'[c].userData = NoUserData
             /\ roomConnections' = roomConnections]_vars

\* C10: a room the sweeper finds stored live with endTime <= now is selected
\* for closing; when the tick's update completes its stored status is closed
\* and every open connection of its bucket has been sent a
\* room_status_update event with status "closed".
C10_SweeperClosesAndNotifies ==
    [][\A t \in sweeps :
          /\ (t.kind = "sweeper" /\ t.pc = "selectClose" /\ Stepped(t, sweeps)) =>
                \A r \in DOMAIN rooms :
                   (rooms[r].status = "live" /\ rooms[r].endTime <= t.now) =>
                      \E t2 \in sweeps' :
                         t2.id = t.id /\ t2.pc = "updateClose" /\ r \in t2.goingClosed
          /\ (t.kind = "sweeper" /\ t.pc = "updateClose" /\ Stepped(t, sweeps)) =>
                \A r \in t.goingClosed :
                   /\ rooms'[r].status = "closed"
                   /\ \A c \in Bucket(r) :
                         IsOpen(c) =>
                            StatusEvent(r, "closed") \in Range(NewEvents(c))]_vars

\* C10 witness: a tick closed room 1 and an open connection of its bucket
\* holds the event.
C10_Witness ==
    /\ lastDone.kind = "sweeper"
    /\ 1 \in lastDone.goingClosed
    /\ rooms[1].status = "closed"
    /\ \E c \in Bucket(1) :
          IsOpen(c) /\ StatusEvent(1, "closed") \in Range(outbox[c])

(***************************************************************************)
(* Room creation.                                                          *)
(***************************************************************************)
\* computeStatus of the specification on a row that is being inserted.
ComputeStatusOf(row, t) ==
    IF t < row.startTime THEN "scheduled"
    ELSE IF t < row.endTime THEN "live"
    ELSE "closed"

\* C11: whenever createRoom inserts a room, for any ordering of startTime,
\* endTime and the creation instant (the clock value createRoom read), the
\* stored status is computeStatus(room, now).
C11_InitialStatusIsComputeStatus ==
    [][\A id \in DOMAIN rooms' \ DOMAIN rooms :
          \E t \in posts :
             /\ Stepped(t, posts)
             /\ t.kind = "createRoom"
             /\ rooms'[id].status = ComputeStatusOf(rooms'[id], t.now)]_vars

\* C12: every stored room has endTime > startTime, and a POST /api/rooms
\* whose endTime is not after its startTime was answered with 400.
C12_WindowIsValidated ==
    /\ \A r \in DOMAIN rooms : rooms[r].endTime > rooms[r].startTime
    /\ (lastDone.kind = "createRoom" /\ lastDone.endTime <= lastDone.startTime)
          => lastDone.code = 400

\* C13: in every state the creator of every stored room is a participant of
\* that room, the states between createRoom's two store calls included.
C13_CreatorIsAlwaysParticipant ==
    \A r \in DOMAIN rooms : <<r, rooms[r].creatorId>> \in participants

(***************************************************************************)
(* Access to private rooms and the participant cap.                        *)
(***************************************************************************)
ParticipantsOf(r) == {p \in participants : p[1] = r}

\* C14: every participant of a private room other than its creator is named
\* by the userId of an accepted invitation of that room.
C14_PrivateParticipantsWereInvited ==
    \A p \in participants :
       (rooms[p[1]].type = "private" /\ p[2] # rooms[p[1]].creatorId)
          => \E i \in invitations :
                i.roomId = p[1] /\ i.userId = p[2] /\ i.accepted

\* A join or an accept has just made an invited user a participant of the
\* private room 1.
C14_Witness ==
    /\ rooms[1].type = "private"
    /\ lastDone.kind \in {"join", "accept"}
    /\ lastDone.code = 200
    /\ lastDone.user # 1
    /\ <<1, lastDone.user>> \in participants

\* C15: the participant rows of a room with a cap never outnumber the cap.
C15_CapIsNeverExceeded ==
    \A r \in DOMAIN rooms :
       rooms[r].maxParticipants # 0
          => Cardinality(ParticipantsOf(r)) <= rooms[r].maxParticipants

(***************************************************************************)
(* Requests to a room that is not live; frames that do not parse.          *)
(***************************************************************************)
\* C16: when POST /api/rooms/:id/messages or /reactions reads a room whose
\* stored status is not live, it answers 400, and the step changes neither
\* the messages nor the reactions table and sends no event.
C16_PostToNonLiveRoomRejected ==
    [][\A t \in posts :
          (/\ t.kind \in {"message", "reaction"}
           /\ t.pc = "getRoom"
           /\ Stepped(t, posts)
           /\ t.room \in DOMAIN rooms
           /\ rooms[t.room].status # "live")
             => /\ Finished(t, posts)
                /\ lastDone'.id = t.id
                /\ lastDone'.code = 400
                /\ messages' = messages
                /\ reactions' = reactions
                /\ outbox' = outbox]_vars

\* A reaction posted to the room that is not live was answered 400 while a
\* connection was bound to the room.
C16_Witness ==
    /\ rooms[1].status # "live"
    /\ lastDone.kind = "reaction"
    /\ lastDone.code = 400
    /\ \E c \in Bucket(1) : IsOpen(c)
    /\ messages = {} /\ reactions = {}

\* C17: a frame that does not parse makes the server send exactly one error
\* event, to the sender only, and changes neither the sender's state and
\* binding, nor the registry, nor the store, nor the running handlers.
C17_MalformedFrameIsNonFatal ==
    [][\A c \in Conns :
          (conns'[c].frames = conns[c].frames + 1 /\ conns'[c].last = "malformed")
             => /\ outbox'[c] = Append(outbox[c], ErrorEvent)
                /\ \A d \in Conns \ {c} : outbox'[d] = outbox[d]
                /\ conns'[c].state = conns[c].state
                /\ conns'[c].userData = conns[c].userData
                /\ roomConnections' = roomConnections
                /\ dbVars' = dbVars
                /\ wsTasks' = wsTasks]_vars

\* A connection received a frame that does not parse and then bound itself
\* with an init frame: it was answered with the error and then with the ack.
C17_Witness ==
    \E c \in Conns :
       /\ IsOpen(c)
       /\ IsBound(c)
       /\ conns[c].frames = 2
       /\ outbox[c] = <<ErrorEvent, InitAck>>

(***************************************************************************)
(* The transcript of the receiving client.                                 *)
(***************************************************************************)
\* C18: on every page, for whatever order the pending echo, the durable-id
\* message event and the fetched message list arrived in, the transcript
\* shows at most one entry per persisted message, and once the durable-id
\* version has arrived the entry shown is that version.
C18_TranscriptShowsEachMessageOnce ==
    \A c \in Conns : \A m \in messages :
       LET shown == {e \in Transcript(c) :
                        e.userId = m.userId /\ e.content = m.content}
           arrived == \/ m \in client[c].fetched
                      \/ \E e \in client[c].wsMessages : e.key = DurableKey(m.id)
       IN /\ Cardinality(shown) <= 1
          /\ arrived => \A e \in shown : e.key = DurableKey(m.id)

C20_EndedRoomIsEventuallyClosed ==
    [](  (rooms[1].startTime < rooms[1].endTime /\ now >= rooms[1].endTime)
         => <>[](rooms[1].status = "closed"))

(***************************************************************************)
(* Message events and their ids.                                           *)
(***************************************************************************)
\* C21: every message event the server has sent, the one sent back to the
\* sender included, carries the id of a persisted row of the messages table
\* (an id of 0 stands for id: null).
C21_MessageEventsCarryStoreId ==
    \A c \in Conns : \A i \in DOMAIN outbox[c] :
       outbox[c][i].type = "message"
          => /\ outbox[c][i].id # 0
             /\ \E m \in messages : m.id = outbox[c][i].id

(***************************************************************************)
(* storage.createReaction under overlapping invocations.                   *)
(***************************************************************************)
\* C22: whenever the insert of a storage.createReaction invocation completes,
\* in a POST /api/rooms/:id/reactions handler or in a reaction frame handler,
\* whatever other invocation for the same (roomId, userId, type) ran in
\* between, the invocation returns its row (it is not refused) and exactly
\* that one row of the triple is left in the table.
C22_CreateReactionInsertOrReplace ==
    [][/\ \A t \in posts :
            (Stepped(t, posts) /\ t.kind = "reaction" /\ t.pc = "insertReaction")
               => {x \in reactions' : /\ x.roomId = t.room
                                      /\ x.userId = t.user
                                      /\ x.type = t.body}
                     = {ReactionRow(t.room, t.user, t.body)}
       /\ \A t \in wsTasks :
            (Stepped(t, wsTasks) /\ t.kind = "reaction" /\ t.pc = "insertReaction")
               => {x \in reactions' : /\ x.roomId = t.roomId
                                      /\ x.userId = t.userId
                                      /\ x.type = t.content}
                     = {ReactionRow(t.roomId, t.userId, t.content)}]_vars

(***************************************************************************)
(* Order of the frames of one connection.                                  *)
(***************************************************************************)
\* C23: the handler of a frame takes no step (no store call of it completes,
\* no event of it is sent) while the handler of a frame received earlier on
\* the same connection is still running: frames of one connection are
\* handled one after the other, in arrival order.
C23_FramesHandledInArrivalOrder ==
    [][\A t \in wsTasks :
          Stepped(t, wsTasks)
             => ~\E t0 \in wsTasks : /\ t0.conn = t.conn
                                     /\ t0.id[2] < t.id[2]]_vars

(***************************************************************************)
(* A message frame whose row cannot be persisted.                          *)
(***************************************************************************)
\* A message event in some outbox belongs to a frame whose row is persisted
\* or whose storage.createMessage call has not completed yet (in SpecOrder a
\* frame is identified by its user and its content).
MessageEventsArePersisted ==
    \A c \in Conns : \A i \in DOMAIN outbox[c] :
       outbox[c][i].type = "message"
          => \/ \E m \in messages : /\ m.userId = outbox[c][i].user
                                    /\ m.content = outbox[c][i].content
             \/ \E t \in wsTasks : /\ t.pc = "createMessage"
                                   /\ t.userId = outbox[c][i].user
                                   /\ t.content = outbox[c][i].content

\* C24: when storage.createMessage fails for a message frame, the step
\* appends an error event to the outbox of the originating connection (if it
\* is still open), and no outbox ever holds a message event of a frame whose
\* row was not persisted.
C24_FailedMessageYieldsErrorOnly ==
    [][/\ \A t \in wsTasks :
            (/\ Stepped(t, wsTasks)
             /\ t.pc = "createMessage"
             /\ messages' = messages
             /\ IsOpen(t.conn))
               => /\ Len(NewEvents(t.conn)) = 1
                  /\ NewEvents(t.conn)[1].type = "error"
       /\ MessageEventsArePersisted']_vars

(***************************************************************************)
(* The status a request handler decides on.                                *)
(***************************************************************************)
\* C25: when POST join or POST messages/reactions reads an existing room, it
\* refuses the request as not live exactly when computeStatus(room, now) is
\* not live; when GET /api/rooms/:id decides its reconciliation, the status
\* it goes on with (the corrected one, or the one it read) is
\* computeStatus(room, now).
C25_HandlersDecideOnComputedStatus ==
    [][/\ \A t \in joins :
            (Stepped(t, joins) /\ t.pc = "getRoom" /\ t.room \in DOMAIN rooms)
               => (Finished(t, joins) <=> ComputeStatus(t.room, now) # "live")
       /\ \A t \in posts :
            (/\ Stepped(t, posts)
             /\ t.kind \in {"message", "reaction"}
             /\ t.pc = "getRoom"
             /\ t.room \in DOMAIN rooms)
               => (Finished(t, posts) <=> ComputeStatus(t.room, now) # "live")
       /\ \A t \in gets :
            (Stepped(t, gets) /\ t.pc = "isParticipant")
               => \A t2 \in gets' :
                     t2.id = t.id
                        => (IF t2.target # "" THEN t2.target ELSE t2.status)
                              = ComputeStatus(t.room, now)]_vars

(***************************************************************************)
(* The types of the persisted reactions.                                   *)
(***************************************************************************)
\* C26: after every step each row of the reactions table has a type of
\* REACTION_TYPES, and the handler of a reaction frame with another type ends
\* with an error event on its connection (if open) and an unchanged table.
C26_ReactionTypesAreEmoji ==
    [][/\ \A x \in reactions' : x.type \in REACTION_TYPES
       /\ \A t \in wsTasks :
             (/\ Finished(t, wsTasks)
              /\ t.kind = "reaction"
              /\ t.content \notin REACTION_TYPES)
                => /\ reactions' = reactions
                   /\ IsOpen(t.conn) => /\ Len(NewEvents(t.conn)) = 1
                                        /\ NewEvents(t.conn)[1].type = "error"]_vars

(***************************************************************************)
(* Sweeper ticks whose store calls fail.                                   *)
(***************************************************************************)
\* C27: the room of SpecFail is created scheduled and only the sweeper writes
\* its status, so a stored status of live or closed is a transition a tick
\* made.  Whatever store calls fail, every such transition is eventually
\* announced to the connections (open and registered throughout) with a
\* room_status_update event of that status.
C27_SweeperTransitionsAreAnnounced ==
    \A s \in {"live", "closed"} :
       [](rooms[1].status = s
             => <>(\A c \in Conns :
                      \E i \in DOMAIN outbox[c] : outbox[c][i] = StatusEvent(1, s)))

(***************************************************************************)
(* Buckets of the registry.                                                *)
(***************************************************************************)
\* C28: the registry holds no empty bucket: every room id that has a bucket
\* has at least one connection in it.
C28_NoEmptyBucket ==
    \A b \in DOMAIN roomConnections : roomConnections[b] # {}

\* C28 witness: a connection that had registered with an init frame has
\* closed, it was the last member of its bucket, and the bucket is gone while
\* the other connection still has its own.
C28_Witness ==
    \E c \in Conns, d \in Conns :
       /\ conns[c].state = "closed"
       /\ IsBound(c)
       /\ conns[c].userData.roomId \notin DOMAIN roomConnections
       /\ IsOpen(d)
       /\ IsBound(d)
       /\ d \in Bucket(conns[d].userData.roomId)

(***************************************************************************)
(* Fan-out over buckets that hold connections that are no longer open.     *)
(***************************************************************************)
\* C29: no step sends anything to a connection that is not open, and every
\* broadcast reaches each open connection it is meant for, whatever closed
\* connections the buckets still hold: a reaction reaches every open member
\* of the bucket, a saved message every open member but the sender, the
\* sweeper's room_status_update events and the room_created event of a public
\* room every open registered connection (once per bucket that holds it),
\* and the room_invitation event the open connections of the invited users.
C29_FanoutSkipsClosedConnections ==
    [][/\ \A c \in Conns : ~IsOpen(c) => outbox'[c] = outbox[c]
       /\ \A t \in wsTasks :
            (Stepped(t, wsTasks) /\ t.pc = "insertReaction" /\ reactions' # reactions)
               => \A c \in Bucket(conns[t.conn].userData.roomId) :
                     IsOpen(c)
                        => NewEvents(c)
                             = <<ReactionEvent(ReactionRow(t.roomId, t.userId, t.content))>>
       /\ \A t \in wsTasks :
            (/\ Stepped(t, wsTasks)
             /\ t.kind = "save"
             /\ t.pc = "createMessage"
             /\ messages' # messages)
               => \A c \in Bucket(conns[t.conn].userData.roomId) \ {t.conn} :
                     IsOpen(c)
                        => NewEvents(c)
                             = <<MessageEvent(MessageRow(t.roomId, t.userId, t.content))>>
       /\ \A t \in sweeps :
            (/\ Finished(t, sweeps)
             /\ t.kind = "sweeper"
             /\ lastDone'.goingLive \cup lastDone'.goingClosed # {})
               => \A c \in Conns :
                     IsOpen(c)
                        => NewEvents(c)
                             = Repeat(SweepEvents(lastDone'.goingLive,
                                                  lastDone'.goingClosed), Visits(c))
       /\ \A t \in posts :
            (Finished(t, posts) /\ t.kind = "createRoom" /\ lastDone'.code = 201)
               => \A c \in Conns :
                     (/\ IsOpen(c)
                      /\ IsBound(c)
                      /\ \/ t.row.type = "public"
                         \/ conns[c].userData.userId \in t.invitedUserIds)
                        => NewEvents(c)
                             = Repeat(<<IF t.row.type = "public"
                                        THEN RoomCreatedEvent(t.room)
                                        ELSE RoomInvitationEvent(t.room)>>, Visits(c))]_vars

\* C29 witness: connection 1 has closed and is still a member of the bucket
\* of room 1; it was sent nothing after its confirmations, while connection 2
\* of the same bucket received the sweeper's room_status_update, a reaction
\* and the room_created event of a new public room.
C29_Witness ==
    /\ conns[1].state = "closed"
    /\ 1 \in Bucket(1)
    /\ outbox[1] = <<InitAck, InitAck>>
    /\ IsOpen(2)
    /\ \E i \in DOMAIN outbox[2] : outbox[2][i].type = "room_status_update"
    /\ \E i \in DOMAIN outbox[2] : outbox[2][i].type = "reaction"
    /\ \E i \in DOMAIN outbox[2] : outbox[2][i].type = "room_created"

(***************************************************************************)
(* Who is told about a new private room.                                   *)
(***************************************************************************)
\* The users the entries of a req.body.invitations name by username.
InvitedByUsername(invites) ==
    {invites[i].username : i \in DOMAIN invites} \cap Users

\* C30: no step of a POST /api/rooms handler that creates a private room
\* sends anything but room_invitation events of that room, and only to
\* connections that are open and bound to a user whom the request invites by
\* username (one of an entry already processed, or of the entries left).
C30_PrivateRoomToldToInvitedOnly ==
    [][\A t \in posts :
          (Stepped(t, posts) /\ t.kind = "createRoom" /\ t.row.type = "private")
             => \A c \in Conns :
                   NewEvents(c) # << >>
                      => /\ \A i \in DOMAIN NewEvents(c) :
                               NewEvents(c)[i] = RoomInvitationEvent(t.room)
                         /\ IsOpen(c)
                         /\ conns[c].userData.userId
                               \in t.invitedUserIds \cup InvitedByUsername(t.invites)]_vars

\* C30 witness: a private room was created with user 2 invited; connection 1,
\* bound to user 2 on the global channel, got its room_invitation (once per
\* bucket that holds it) and connection 2, open in the bucket of room 1 and
\* bound to user 3, got nothing.
C30_Witness ==
    /\ lastDone.kind = "createRoom"
    /\ lastDone.code = 201
    /\ lastDone.room \in DOMAIN rooms
    /\ rooms[lastDone.room].type = "private"
    /\ conns[1].userData.userId = 2
    /\ outbox[1] = <<InitAck, InitAck, RoomInvitationEvent(lastDone.room),
                     RoomInvitationEvent(lastDone.room)>>
    /\ IsOpen(2)
    /\ outbox[2] = <<InitAck>>

(***************************************************************************)
(* A second invitation for the same user or email.                         *)
(***************************************************************************)
\* C31: when POST /api/rooms/:id/invitations reaches its store call for a
\* user or an email that already has an invitation of the room, it answers
\* 400 or 409, leaves the invitations table as it is and sends no event.
C31_DuplicateInvitationIsConflict ==
    [][\A t \in posts :
          (/\ Stepped(t, posts)
           /\ t.kind = "invite"
           /\ t.pc = "inviteCreate"
           /\ \E i \in invitations :
                 /\ i.roomId = t.room
                 /\ \/ t.username # NoUser /\ i.userId = t.username
                    \/ t.username = NoUser /\ i.email = t.email)
             => /\ lastDone'.code \in {400, 409}
                /\ invitations' = invitations
                /\ outbox' = outbox]_vars

(***************************************************************************)
(* userAccess.canJoin and the join it announces.                           *)
(***************************************************************************)
\* C32: when the join of a user completes right after that user's GET
\* /api/rooms/:id was answered 200 with isParticipant false (the store has
\* not changed in between), the join is answered 200 exactly when the GET
\* said canJoin.
C32_CanJoinAgreesWithJoin ==
    [][\A t \in joins :
          (/\ Finished(t, joins)
           /\ lastDone.kind = "get"
           /\ lastDone.code = 200
           /\ lastDone.user = t.user
           /\ lastDone.room = t.room
           /\ ~lastDone.isParticipant)
             => (lastDone.canJoin <=> lastDone'.code = 200)]_vars

(***************************************************************************)
(* The invitation of a user who joined.                                    *)
(***************************************************************************)
\* C33: when a POST /api/rooms/:id/join makes a user a participant and is
\* answered 200, every invitation the user holds for the room is accepted
\* and the room is not among the user's invited rooms any more.
C33_JoinAcceptsInvitation ==
    [][\A t \in joins :
          (/\ Finished(t, joins)
           /\ lastDone'.code = 200
           /\ <<t.room, t.user>> \notin participants
           /\ <<t.room, t.user>> \in participants')
             => /\ \A i \in invitations' :
                      (i.roomId = t.room /\ i.userId = t.user) => i.accepted
                /\ t.room \notin GetRoomsByInvitation(t.user)']_vars

(***************************************************************************)
(* Buckets and bindings.                                                   *)
(***************************************************************************)
\* C34: every connection is a member of at most one bucket of the registry,
\* and the bucket that holds it is the one of its currently bound roomId.
C34_OneBucketPerConnection ==
    \A c \in Conns :
       /\ Visits(c) <= 1
       /\ \A b \in DOMAIN roomConnections :
             c \in roomConnections[b] => conns[c].userData.roomId = b

(***************************************************************************)
(* The room of a row and the room of its event.                            *)
(***************************************************************************)
\* C35: every message or reaction event a step sends goes to a connection
\* that is a member of the bucket of the room the event's row is stored in.
C35_EventGoesToBucketOfRow ==
    [][\A c \in Conns : \A i \in DOMAIN NewEvents(c) :
          NewEvents(c)[i].type \in {"message", "reaction"}
             => c \in Bucket(NewEvents(c)[i].room)]_vars

(***************************************************************************)
(* Status changes and their announcement, on every path.                   *)
(***************************************************************************)
\* C36: the room of SpecAnnounce is created scheduled, so a stored status of
\* live or closed is a change some path persisted (a sweeper tick, the
\* updateRoomStatuses call of GET /api/rooms or the reconciliation of GET
\* /api/rooms/:id).  Each such change is followed by a room_status_update
\* event with the new status in the outbox of every open connection of the
\* room's bucket.
C36_StatusChangeIsFollowedByEvent ==
    \A s \in {"live", "closed"} : \A c \in Conns :
       []((rooms[1].status = s /\ IsOpen(c) /\ c \in Bucket(1))
             => <>(\E i \in DOMAIN outbox[c] :
                      /\ outbox[c][i].type = "room_status_update"
                      /\ outbox[c][i].room = 1
                      /\ outbox[c][i].status = s))

(***************************************************************************)
(* What one call of updateRoomStatuses returns.                            *)
(***************************************************************************)
\* C37: when a call of updateRoomStatuses returns (no other call and no
\* other writer running beside it), no room with startTime < endTime is in
\* both of the sets goingLive and goingClosed it returns, and every such room
\* of goingLive is stored live.
C37_GoingLiveAndClosedDisjoint ==
    [][\A t \in sweeps :
          Finished(t, sweeps)
             => \A r \in lastDone'.goingLive :
                   rooms[r].startTime < rooms[r].endTime
                      => /\ r \notin lastDone'.goingClosed
                         /\ rooms'[r].status = "live"]_vars

(***************************************************************************)
(* When participant rows are created.                                      *)
(***************************************************************************)
\* C38: a step that inserts a participant row for a user other than the
\* room's creator finds the room stored live and, if the room has a cap,
\* fewer participants than the cap.
C38_ParticipantsAddedWhileLiveBelowCap ==
    [][\A p \in participants' \ participants :
          p[2] # rooms[p[1]].creatorId
             => /\ rooms[p[1]].status = "live"
                /\ \/ rooms[p[1]].maxParticipants = 0
                   \/ Cardinality(ParticipantsOf(p[1])) < rooms[p[1]].maxParticipants]_vars

(***************************************************************************)
(* Rows persisted through the POST routes and their events.                *)
(***************************************************************************)
\* C39: when POST /api/rooms/:id/messages or POST /api/rooms/:id/reactions
\* answers 201, the step sends every open connection of the room's bucket
\* exactly one event, a message or reaction event of that room that carries
\* the id of the new row.
C39_PostedRowsAreDelivered ==
    [][\A t \in posts :
          (/\ Finished(t, posts)
           /\ t.kind \in {"message", "reaction"}
           /\ lastDone'.code = 201)
             => \A c \in Bucket(t.room) :
                   IsOpen(c)
                      => /\ Len(NewEvents(c)) = 1
                         /\ NewEvents(c)[1].type = t.kind
                         /\ NewEvents(c)[1].room = t.room
                         /\ NewEvents(c)[1].id = lastDone'.row]_vars

====
